---------------------------- MODULE Spec2Model ----------------------------
(***************************************************************************)
(* Verification model of the polymc metadata resolver (MetaManager), its   *)
(* library / asset verifier and the download_meta driver loop.             *)
(*                                                                         *)
(* Rust Option<T> is modelled as a sequence of length at most one:         *)
(* None is <<>> and Some(x) is <<x>>.  A Vec is a sequence, a HashMap a    *)
(* function whose DOMAIN is the set of keys.  A Result is a record with an *)
(* err field that is "Ok" or the name of the Error variant.                *)
(***************************************************************************)
EXTENDS Integers, Sequences, FiniteSets, TLC

(***************************************************************************)
(* Bounds of the model.                                                    *)
(***************************************************************************)
\* cap on the number of search() calls (length of wants)
MaxWants == 2

\* cap on the number of continue_search() calls of the driver loop
MaxRounds == 12

(***************************************************************************)
(* Generic helpers.                                                        *)
(***************************************************************************)
None == <<>>

Some(x) == <<x>>

IsSome(o) == Len(o) > 0

Unwrap(o) == o[1]

Range(s) == {s[i] : i \in 1..Len(s)}

\* HashMap::insert on a map modelled as a function
MapInsert(m, k, v) == [x \in (DOMAIN m) \cup {k} |-> IF x = k THEN v ELSE m[x]]

EmptyMap == <<>>

(***************************************************************************)
(* Construction parameters of the MetaManager and the host platform.       *)
(***************************************************************************)
LibraryPath == "lib"

AssetsPath == "assets"

BaseUrl == "https://meta"

ASSET_DEFAULT_URL == "https://resources.download.minecraft.net"

\* OS::get() on a linux build
HostOS == [name |-> "linux"]

(***************************************************************************)
(* Hashes: a digest is a sequence of bytes; hex::encode is computed.       *)
(***************************************************************************)
HexDigit == <<"0","1","2","3","4","5","6","7","8","9","a","b","c","d","e","f">>

HexByte(b) == HexDigit[(b \div 16) + 1] \o HexDigit[(b % 16) + 1]

RECURSIVE HexEncode(_)
HexEncode(bytes) ==
    IF Len(bytes) = 0 THEN ""
    ELSE HexByte(bytes[1]) \o HexEncode(Tail(bytes))

(***************************************************************************)
(* Path handling: a PathBuf is the sequence of its pushed components.      *)
(***************************************************************************)
RECURSIVE JoinWith(_, _)
JoinWith(parts, sep) ==
    IF Len(parts) = 0 THEN ""
    ELSE IF Len(parts) = 1 THEN parts[1]
    ELSE parts[1] \o sep \o JoinWith(Tail(parts), sep)

\* LibraryName::base_path_at: root, each '.'-component of namespace, name,
\* version; PathBuf::push of an empty component adds no component
base_path_at(name, path) ==
    SelectSeq(<<path>> \o name.namespace \o <<name.name, name.version>>,
              LAMBDA component : component # "")

\* variant: the file name without the extra versions
path_at_plain(name, path) ==
    Append(base_path_at(name, path), name.name \o "-" \o name.version \o ".jar")

\* LibraryName::path_at
path_at(name, path) ==
    IF name.extra_versions # <<>>
    THEN Append(base_path_at(name, path),
                name.name \o "-" \o name.version \o "-"
                  \o JoinWith(name.extra_versions, "-") \o ".jar")
    ELSE Append(base_path_at(name, path),
                name.name \o "-" \o name.version \o ".jar")

\* LibraryName::path_at_natives
path_at_natives(name, path, natives) ==
    IF name.extra_versions # <<>>
    THEN Append(base_path_at(name, path),
                name.name \o "-" \o name.version \o "-"
                  \o JoinWith(name.extra_versions, "-") \o "-" \o natives \o ".jar")
    ELSE Append(base_path_at(name, path),
                name.name \o "-" \o name.version \o "-" \o natives \o ".jar")

(***************************************************************************)
(* Library: platform rules, artifact selection, paths.                     *)
(***************************************************************************)
\* variant: a disallow rule for the platform withdraws what was allowed
required_for_disallow(lib, platform) ==
    LET RECURSIVE Scan(_, _)
        Scan(i, allow) ==
            IF i > Len(lib.rules) THEN allow
            ELSE IF lib.rules[i].action = "allow" /\ ~allow
                 THEN Scan(i + 1, lib.rules[i].os.name = platform.name)
                 ELSE IF lib.rules[i].action = "disallow"
                         /\ lib.rules[i].os.name = platform.name
                      THEN Scan(i + 1, FALSE)
                      ELSE Scan(i + 1, allow)
    IN  IF lib.rules = <<>> THEN TRUE ELSE Scan(1, FALSE)

\* variant: every allow rule overwrites allow, so the last allow rule decides
required_for_last(lib, platform) ==
    LET RECURSIVE Scan(_, _)
        Scan(i, allow) ==
            IF i > Len(lib.rules) THEN allow
            ELSE IF lib.rules[i].action = "allow"
                 THEN Scan(i + 1, lib.rules[i].os.name = platform.name)
                 ELSE Scan(i + 1, allow)
    IN  IF lib.rules = <<>> THEN TRUE ELSE Scan(1, FALSE)

\* Library::required_for: the loop over the rules, allow initially false
RECURSIVE RequiredScan(_, _, _, _)
RequiredScan(rules, i, allow, platform) ==
    IF i > Len(rules) THEN allow
    ELSE IF rules[i].action = "allow" /\ ~allow
         THEN RequiredScan(rules, i + 1, rules[i].os.name = platform.name, platform)
         ELSE RequiredScan(rules, i + 1, allow, platform)

required_for(lib, platform) ==
    IF lib.rules = <<>> THEN TRUE
    ELSE RequiredScan(lib.rules, 1, FALSE, platform)

\* variant: the main artifact is selected whatever the natives map says
select_for_artifact(lib, os) == Some(lib.downloads.artifact)

\* Library::select_for: Option<&LibraryDownload>
select_for(lib, os) ==
    IF os.name \in DOMAIN lib.natives
    THEN IF lib.natives[os.name] \in DOMAIN lib.downloads.classifiers
         THEN Some(lib.downloads.classifiers[lib.natives[os.name]])
         ELSE None
    ELSE Some(lib.downloads.artifact)

\* variant: the path of the main artifact whatever download is selected
path_at_for_plain(lib, at, platform) == path_at(lib.name, at)

\* Library::path_at_for
path_at_for(lib, at, platform) ==
    IF platform.name \in DOMAIN lib.natives
    THEN path_at_natives(lib.name, at, lib.natives[platform.name])
    ELSE path_at(lib.name, at)

\* Asset::path_at
asset_path_at(asset, at) ==
    <<at, "objects", HexEncode(SubSeq(asset.hash, 1, 1)), HexEncode(asset.hash)>>

\* PathBuf::display().to_string()
Display(path) == JoinWith(path, "/")

\* the digest of the file at PathBuf p: None when there is no file
FileDigest(files, p) ==
    IF Display(p) \in DOMAIN files THEN files[Display(p)] ELSE None

\* variant: the digest is compared with the main artifact's sha1 whatever
\* download is selected
verify_at_artifact(lib, at, platform, files) ==
    LET artifact == select_for(lib, platform)
        path == path_at_for(lib, at, platform)
    IN  IF ~IsSome(artifact) THEN "LibraryNotSupported"
        ELSE IF ~IsSome(FileDigest(files, path)) THEN "LibraryMissing"
        ELSE IF Unwrap(FileDigest(files, path)) = lib.downloads.artifact.sha1 THEN "Ok"
        ELSE "LibraryInvalidHash"

\* Library::verify_at
verify_at(lib, at, platform, files) ==
    LET artifact == select_for(lib, platform)
        path == path_at_for(lib, at, platform)
    IN  IF ~IsSome(artifact) THEN "LibraryNotSupported"
        ELSE IF ~IsSome(FileDigest(files, path)) THEN "LibraryMissing"
        ELSE IF Unwrap(FileDigest(files, path)) = Unwrap(artifact).sha1 THEN "Ok"
        ELSE "LibraryInvalidHash"

\* Asset::verify_at
asset_verify_at(asset, at, files) ==
    LET path == asset_path_at(asset, at)
    IN  IF ~IsSome(FileDigest(files, path)) THEN "LibraryMissing"
        ELSE IF Unwrap(FileDigest(files, path)) = asset.hash THEN "Ok"
        ELSE "LibraryInvalidHash"

(***************************************************************************)
(* The per-artifact "verified" flag is an Rc<UnsafeCell<bool>> shared by   *)
(* every clone of the Library / Asset it was parsed with.  The model keeps *)
(* the set of cells that are true; a cell is named by the manifest it was  *)
(* parsed in and its position there.                                       *)
(***************************************************************************)
Cell(uid, version, kind, idx) ==
    [uid |-> uid, version |-> version, kind |-> kind, idx |-> idx]

\* variant: the loop over self.libraries without the test of the verified flag
RECURSIVE VerifyLibraries_uncached(_, _, _, _, _, _)
VerifyLibraries_uncached(manifest, i, path, platform, files, st) ==
    IF st.err # "Ok" \/ i > Len(manifest.libraries) THEN st
    ELSE LET lib == manifest.libraries[i]
             cell == Cell(manifest.uid, manifest.version, "lib", i)
         IN  IF required_for(lib, platform)
             THEN LET e == verify_at(lib, path, platform, files)
                  IN  VerifyLibraries_uncached(manifest, i + 1, path, platform, files,
                        CASE e = "Ok" ->
                               [st EXCEPT !.verified = @ \cup {cell}]
                          [] e \in {"LibraryMissing", "LibraryInvalidHash"} ->
                               [st EXCEPT !.ret = Append(@, [lib |-> lib, error |-> e])]
                          [] OTHER ->
                               [st EXCEPT !.err = e])
             ELSE VerifyLibraries_uncached(manifest, i + 1, path, platform, files, st)

\* variant: the loop over self.libraries without the test of required_for
RECURSIVE VerifyLibraries_every(_, _, _, _, _, _)
VerifyLibraries_every(manifest, i, path, platform, files, st) ==
    IF st.err # "Ok" \/ i > Len(manifest.libraries) THEN st
    ELSE LET lib == manifest.libraries[i]
             cell == Cell(manifest.uid, manifest.version, "lib", i)
         IN  IF cell \notin st.verified
             THEN LET e == verify_at(lib, path, platform, files)
                  IN  VerifyLibraries_every(manifest, i + 1, path, platform, files,
                        CASE e = "Ok" ->
                               [st EXCEPT !.verified = @ \cup {cell}]
                          [] e \in {"LibraryMissing", "LibraryInvalidHash"} ->
                               [st EXCEPT !.ret = Append(@, [lib |-> lib, error |-> e])]
                          [] OTHER ->
                               [st EXCEPT !.err = e])
             ELSE VerifyLibraries_every(manifest, i + 1, path, platform, files, st)

\* the loop over self.libraries of Manifest::verify_caching_at
RECURSIVE VerifyLibraries(_, _, _, _, _, _)
VerifyLibraries(manifest, i, path, platform, files, st) ==
    IF st.err # "Ok" \/ i > Len(manifest.libraries) THEN st
    ELSE LET lib == manifest.libraries[i]
             cell == Cell(manifest.uid, manifest.version, "lib", i)
         IN  IF cell \notin st.verified /\ required_for(lib, platform)
             THEN LET e == verify_at(lib, path, platform, files)
                  IN  VerifyLibraries(manifest, i + 1, path, platform, files,
                        CASE e = "Ok" ->
                               [st EXCEPT !.verified = @ \cup {cell}]
                          [] e \in {"LibraryMissing", "LibraryInvalidHash"} ->
                               [st EXCEPT !.ret = Append(@, [lib |-> lib, error |-> e])]
                          [] OTHER ->
                               [st EXCEPT !.err = e])
             ELSE VerifyLibraries(manifest, i + 1, path, platform, files, st)

\* the main_jar part of Manifest::verify_caching_at
VerifyMainJar(manifest, path, platform, files, st) ==
    IF st.err # "Ok" \/ ~IsSome(manifest.main_jar) THEN st
    ELSE LET jar == Unwrap(manifest.main_jar)
             cell == Cell(manifest.uid, manifest.version, "main_jar", 0)
         IN  IF cell \notin st.verified
             THEN LET e == verify_at(jar, path, platform, files)
                  IN  CASE e = "Ok" ->
                             [st EXCEPT !.verified = @ \cup {cell}]
                        [] e \in {"LibraryMissing", "LibraryInvalidHash"} ->
                             [st EXCEPT !.ret = Append(@, [lib |-> jar, error |-> e])]
                        [] OTHER ->
                             [st EXCEPT !.err = e]
             ELSE st

\* Manifest::verify_caching_at: [ret, verified, err]; on an error the flags
\* already written stay written
verify_caching_at(manifest, path, platform, verified, files) ==
    VerifyMainJar(manifest, path, platform, files,
        VerifyLibraries(manifest, 1, path, platform, files,
            [ret |-> <<>>, verified |-> verified, err |-> "Ok"]))

\* Asset::verify_caching_at for the asset at position i of the index of (uid, version)
asset_verify_caching_at(asset, cell, at, verified, files) ==
    IF cell \in verified THEN [err |-> "Ok", verified |-> verified]
    ELSE LET e == asset_verify_at(asset, at, files)
         IN  IF e # "Ok" THEN [err |-> e, verified |-> verified]
             ELSE [err |-> "Ok", verified |-> verified \cup {cell}]

\* AssetIndex::verify_caching_at: the loop over self.objects
RECURSIVE VerifyAssets(_, _, _, _, _, _, _)
VerifyAssets(asset_index, uid, version, i, at, files, st) ==
    IF st.err # "Ok" \/ i > Len(asset_index.objects) THEN st
    ELSE LET asset == asset_index.objects[i].asset
             r == asset_verify_caching_at(asset, Cell(uid, version, "asset", i),
                                          at, st.verified, files)
         IN  VerifyAssets(asset_index, uid, version, i + 1, at, files,
               CASE r.err = "Ok" ->
                      [st EXCEPT !.verified = r.verified]
                 [] r.err \in {"LibraryMissing", "LibraryInvalidHash"} ->
                      [st EXCEPT !.ret = Append(@, [asset |-> asset, error |-> r.err])]
                 [] OTHER ->
                      [st EXCEPT !.err = r.err])

asset_index_verify_caching_at(asset_index, uid, version, at, verified, files) ==
    VerifyAssets(asset_index, uid, version, 1, at, files,
        [ret |-> <<>>, verified |-> verified, err |-> "Ok"])

(***************************************************************************)
(* The metadata served by the registry: the payloads that the loaders      *)
(* parse.  A world fixes the UIDs the registry index lists, the requires   *)
(* lists of a@1 and b@1 and the artifacts of a@1; the other payloads are   *)
(* the same in every world.                                                *)
(***************************************************************************)
Download(sha1, url) == [sha1 |-> sha1, url |-> url]

Name(namespace, name, version, extra_versions) ==
    [namespace |-> namespace, name |-> name, version |-> version,
     extra_versions |-> extra_versions]

Rule(action, os) == [action |-> action, os |-> [name |-> os]]

\* a library without rules and natives
LibBrigadier ==
    [name |-> Name(<<"com", "mojang">>, "brigadier", "1.0", <<>>),
     downloads |-> [artifact |-> Download(<<17>>, "https://libs/brigadier"),
                    classifiers |-> EmptyMap],
     natives |-> EmptyMap,
     rules |-> <<>>]

\* a library whose rules allow it on osx only
LibObjcBridge ==
    [name |-> Name(<<"ca", "weblite">>, "java-objc-bridge", "1.0.0", <<>>),
     downloads |-> [artifact |-> Download(<<18>>, "https://libs/objc"),
                    classifiers |-> EmptyMap],
     natives |-> EmptyMap,
     rules |-> <<Rule("allow", "osx")>>]

\* a native library with a classifier for the host
LibLwjgl ==
    [name |-> Name(<<"org", "lwjgl">>, "lwjgl", "3.2", <<>>),
     downloads |-> [artifact |-> Download(<<19>>, "https://libs/lwjgl"),
                    classifiers |->
                      ("natives-linux" :> Download(<<20>>, "https://libs/lwjgl-linux"))],
     natives |-> ("linux" :> "natives-linux"),
     rules |-> <<>>]

\* a native library whose natives entry for the host names no classifier
LibTwitch ==
    [name |-> Name(<<"tv", "twitch">>, "twitch", "6.5", <<>>),
     downloads |-> [artifact |-> Download(<<21>>, "https://libs/twitch"),
                    classifiers |->
                      ("natives-osx" :> Download(<<22>>, "https://libs/twitch-osx"))],
     natives |-> ("linux" :> "natives-linux" @@ "osx" :> "natives-osx"),
     rules |-> <<>>]

\* the client jar
LibClient ==
    [name |-> Name(<<"com", "mojang">>, "minecraft", "1.18.1", <<"client">>),
     downloads |-> [artifact |-> Download(<<23>>, "https://libs/client"),
                    classifiers |-> EmptyMap],
     natives |-> EmptyMap,
     rules |-> <<>>]

Asset(hash) == [hash |-> hash]

\* the asset index payload of a@1
AssetIndexPayload ==
    [objects |-> <<[name |-> "icons/icon.png", asset |-> Asset(<<171, 18>>)]>>]

AssetIndexInfo(id, sha1, url) ==
    [id |-> id, sha1 |-> sha1, url |-> url, cache |-> None]

\* the artifact variants of a@1
Artifacts ==
    [bare     |-> [libraries |-> <<>>, main_jar |-> None, asset_index |-> None],
     libs     |-> [libraries |-> <<LibBrigadier, LibObjcBridge>>,
                   main_jar |-> None, asset_index |-> None],
     natives  |-> [libraries |-> <<LibLwjgl>>, main_jar |-> Some(LibClient),
                   asset_index |-> None],
     assets   |-> [libraries |-> <<>>, main_jar |-> None,
                   asset_index |-> Some(AssetIndexInfo("1.18", <<24>>, "https://assets/1.18.json"))],
     unsupported |-> [libraries |-> <<LibBrigadier, LibTwitch>>, main_jar |-> None,
                      asset_index |-> None],
     \* LibTwitch, which has no download for the host, under rules that
     \* exclude it for the host
     excluded |-> [libraries |-> <<[LibTwitch EXCEPT !.rules = <<Rule("allow", "osx")>>],
                                   LibBrigadier>>,
                   main_jar |-> None, asset_index |-> None],
     \* a main_jar that has no download for the host
     unsupported_jar |-> [libraries |-> <<LibBrigadier>>, main_jar |-> Some(LibTwitch),
                          asset_index |-> None]]

Requirement(uid, suggests) == [uid |-> uid, suggests |-> suggests]

\* the versions listed by each package index, in its order
\* (z is a package of the server that the registry index does not list)
PkgVersions == [a |-> <<"1">>, b |-> <<"1", "2">>, c |-> <<"1">>, z |-> <<"1">>]

Sha256Of(uid, version) == <<uid, version>>

\* requires of the version entry (uid, version) in world w
VersionRequires(w, uid, version) ==
    IF version = "1" /\ uid \in DOMAIN w.reqV THEN w.reqV[uid] ELSE <<>>

\* requires of the manifest (uid, version) in world w
ManifestRequires(w, uid, version) ==
    IF version = "1" /\ uid \in DOMAIN w.reqM THEN w.reqM[uid] ELSE <<>>

\* MetaIndex as parsed from <base_url>/index.json
MetaIndexPayload(w) ==
    [packages |-> [i \in 1..Len(w.registry) |->
        [uid |-> w.registry[i], sha256 |-> Sha256Of(w.registry[i], "index"),
         index |-> None]]]

\* PackageIndex as parsed from <base_url>/<uid>/index.json
PackageIndexPayload(w, uid) ==
    [uid |-> uid,
     versions |-> [i \in 1..Len(PkgVersions[uid]) |->
        [version |-> PkgVersions[uid][i],
         requires |-> VersionRequires(w, uid, PkgVersions[uid][i]),
         sha256 |-> Sha256Of(uid, PkgVersions[uid][i]),
         manifest |-> None]]]

\* Manifest as parsed from <base_url>/<uid>/<version>.json
ManifestPayload(w, uid, version) ==
    LET art == IF uid = "a" THEN Artifacts[w.art] ELSE Artifacts["bare"]
    IN  [uid |-> uid, version |-> version,
         requires |-> ManifestRequires(w, uid, version),
         libraries |-> art.libraries,
         main_jar |-> art.main_jar,
         asset_index |-> art.asset_index]

(***************************************************************************)
(* DownloadRequest constructors (meta/request.rs).                         *)
(***************************************************************************)
new_meta_index(url) == [kind |-> "MetaIndex", url |-> url]

new_package_index(base_url, package) ==
    [kind |-> "Index",
     url |-> base_url \o "/" \o package.uid \o "/index.json",
     uid |-> package.uid,
     hash |-> package.sha256]

new_package_manifest(base_url, uid, package) ==
    [kind |-> "Manifest",
     url |-> base_url \o "/" \o uid \o "/" \o package.version \o ".json",
     version |-> package.version,
     hash |-> package.sha256,
     uid |-> uid]

new_library(download, path) ==
    [kind |-> "Library", download |-> download, path |-> Display(path)]

\* Manifest::assets_path_at
assets_path_at(manifest, at) ==
    IF ~IsSome(manifest.asset_index) THEN None
    ELSE Some(Display(<<at, "indexes", Unwrap(manifest.asset_index).id \o ".json">>))

(***************************************************************************)
(* MetaIndex / PackageIndex lookups: the position of the first match, 0    *)
(* for Err(MetaNotFound).                                                  *)
(***************************************************************************)
get_uid(meta_index, uid) ==
    LET hits == {i \in 1..Len(meta_index.packages) : meta_index.packages[i].uid = uid}
    IN  IF hits = {} THEN 0 ELSE CHOOSE i \in hits : \A j \in hits : i <= j

\* variant: the first version entry stands in for a version that is not listed
find_version_or_first(package_index, version) ==
    LET hits == {i \in 1..Len(package_index.versions) :
                    package_index.versions[i].version = version}
    IN  IF hits = {} THEN 1 ELSE CHOOSE i \in hits : \A j \in hits : i <= j

find_version(package_index, version) ==
    LET hits == {i \in 1..Len(package_index.versions) :
                    package_index.versions[i].version = version}
    IN  IF hits = {} THEN 0 ELSE CHOOSE i \in hits : \A j \in hits : i <= j

(***************************************************************************)
(* MetaManager: [wants, extra_wants, manifests, index].                    *)
(***************************************************************************)
Wants(uid, version) == [uid |-> uid, version |-> version]

\* impl From<Requirement> for Wants
WantsFrom(req) == Wants(req.uid, req.suggests)

\* MetaManager::new
new ==
    [wants |-> <<>>, extra_wants |-> <<>>, manifests |-> EmptyMap, index |-> None,
     assets_url |-> None]

\* MetaManager::set_assets_url
set_assets_url(mm, url) == [mm EXCEPT !.assets_url = Some(url)]

\* MetaManager::get_assets_url
get_assets_url(mm) ==
    IF IsSome(mm.assets_url) THEN Unwrap(mm.assets_url) ELSE ASSET_DEFAULT_URL

\* variant: the registry URL without the file name
index_url_bare == BaseUrl

index_url == BaseUrl \o "/index.json"

\* MetaManager::search
search(mm, what) == [mm EXCEPT !.wants = Append(@, what)]

\* variant: a requirement is compared with wants only, so one that is in
\* extra_wants already is added again
check_requirements_again(mm, reqs) ==
    LET RECURSIVE Loop(_, _)
        Loop(i, ret) ==
            IF i > Len(reqs) THEN ret
            ELSE IF \E k \in 1..Len(mm.wants) : mm.wants[k].uid = reqs[i].uid THEN ret
            ELSE Loop(i + 1, Append(ret, WantsFrom(reqs[i])))
    IN  Loop(1, <<>>)

\* MetaManager::check_requirements: the loop returns at the first requirement
\* whose uid is already wanted
RECURSIVE CheckRequirementsLoop(_, _, _, _)
CheckRequirementsLoop(mm, reqs, i, ret) ==
    IF i > Len(reqs) THEN ret
    ELSE IF \E k \in 1..Len(mm.wants) : mm.wants[k].uid = reqs[i].uid THEN ret
    ELSE IF \E k \in 1..Len(mm.extra_wants) : mm.extra_wants[k].uid = reqs[i].uid THEN ret
    ELSE CheckRequirementsLoop(mm, reqs, i + 1, Append(ret, WantsFrom(reqs[i])))

check_requirements(mm, reqs) == CheckRequirementsLoop(mm, reqs, 1, <<>>)

\* the Library requests of search_for, one per entry of verify_result
RECURSIVE LibraryRequests(_, _)
LibraryRequests(verify_result, i) ==
    IF i > Len(verify_result) THEN [err |-> "Ok", ret |-> <<>>]
    ELSE LET lib == verify_result[i].lib
             rest == LibraryRequests(verify_result, i + 1)
         IN  IF ~IsSome(select_for(lib, HostOS))
             THEN [err |-> "MetaNotFound", ret |-> <<>>]
             ELSE IF rest.err # "Ok" THEN rest
             ELSE [err |-> "Ok",
                   ret |-> <<new_library(Unwrap(select_for(lib, HostOS)),
                                         path_at_for(lib, LibraryPath, HostOS))>>
                           \o rest.ret]

\* the Asset requests of search_for, one per entry of asset_results
AssetRequests(mm, asset_results, uid) ==
    [i \in 1..Len(asset_results) |->
        LET asset == asset_results[i].asset
        IN  [kind |-> "Asset",
             url |-> get_assets_url(mm) \o "/" \o HexEncode(SubSeq(asset.hash, 1, 1))
                       \o "/" \o HexEncode(asset.hash),
             path |-> Display(asset_path_at(asset, AssetsPath)),
             asset |-> asset,
             uid |-> uid]]

\* variant: the assets are asked for without waiting for the asset index
SearchAssets_eager(mm, manifest, verified, files) ==
    IF ~IsSome(manifest.asset_index) THEN [err |-> "Ok", ret |-> <<>>, verified |-> verified]
    ELSE LET r == asset_index_verify_caching_at(AssetIndexPayload,
                    manifest.uid, manifest.version, AssetsPath, verified, files)
         IN  [err |-> "Ok", ret |-> AssetRequests(mm, r.ret, manifest.uid),
              verified |-> r.verified]

\* the asset part of search_for (lines 167-193): [err, ret, verified]
SearchAssets(mm, manifest, verified, files) ==
    IF ~IsSome(manifest.asset_index) THEN [err |-> "Ok", ret |-> <<>>, verified |-> verified]
    ELSE LET asset == Unwrap(manifest.asset_index)
         IN  IF IsSome(asset.cache)
             THEN LET r == asset_index_verify_caching_at(Unwrap(asset.cache),
                             manifest.uid, manifest.version, AssetsPath, verified, files)
                  IN  IF r.err # "Ok"
                      THEN [err |-> r.err, ret |-> <<>>, verified |-> r.verified]
                      ELSE [err |-> "Ok", ret |-> AssetRequests(mm, r.ret, manifest.uid),
                            verified |-> r.verified]
             ELSE [err |-> "Ok",
                   ret |-> <<[kind |-> "AssetIndex", info |-> asset,
                              uid |-> manifest.uid, version |-> manifest.version,
                              path |-> Unwrap(assets_path_at(manifest, AssetsPath))]>>,
                   verified |-> verified]

\* MetaManager::search_for: [mm, verified, ret, err]
search_for(mm, verified, files, what) ==
    LET Fail(m, v, e) == [mm |-> m, verified |-> v, ret |-> <<>>, err |-> e]
        \* lines 167-195: the asset requests follow the library requests
        WithAssets(m, libs, assets) ==
            IF assets.err # "Ok" THEN Fail(m, assets.verified, assets.err)
            ELSE [mm |-> m, verified |-> assets.verified,
                  ret |-> libs.ret \o assets.ret, err |-> "Ok"]
        \* lines 159-165: one Library request per entry of verify_result
        WithLibs(m, manifest, v, libs) ==
            IF libs.err # "Ok" THEN Fail(m, v, libs.err)
            ELSE WithAssets(m, libs, SearchAssets(m, manifest, v, files))
        WithVerify(m, manifest, verify_result) ==
            IF verify_result.err # "Ok"
            THEN Fail(m, verify_result.verified, verify_result.err)
            ELSE WithLibs(m, manifest, verify_result.verified,
                          LibraryRequests(verify_result.ret, 1))
        \* lines 149-158: the manifest is loaded
        WithManifest(m, manifest) ==
            WithVerify([m EXCEPT
                          !.extra_wants = @ \o check_requirements(m, manifest.requires),
                          !.manifests = MapInsert(@, manifest.uid, manifest)],
                       manifest,
                       verify_caching_at(manifest, LibraryPath, HostOS, verified, files))
        \* lines 142-147: m already has the wants of version.requires
        WithVersion(m, package_index, version) ==
            IF ~IsSome(version.manifest)
            THEN [mm |-> m, verified |-> verified,
                  ret |-> <<new_package_manifest(BaseUrl, package_index.uid, version)>>,
                  err |-> "Ok"]
            ELSE WithManifest(m, Unwrap(version.manifest))
        \* lines 133-140: find_version(&what.version)?, then check_requirements
        WithVersionAt(package_index, v) ==
            IF v = 0 THEN Fail(mm, verified, "MetaNotFound")
            ELSE WithVersion(
                   [mm EXCEPT !.extra_wants = @ \o check_requirements(mm,
                        Unwrap(package_index.index).versions[v].requires)],
                   package_index, Unwrap(package_index.index).versions[v])
        \* lines 127-131: the package index is asked for when it is not loaded
        WithPackage(package_index) ==
            IF ~IsSome(package_index.index)
            THEN [mm |-> mm, verified |-> verified,
                  ret |-> <<new_package_index(BaseUrl, package_index)>>, err |-> "Ok"]
            ELSE WithVersionAt(package_index,
                               find_version(Unwrap(package_index.index), what.version))
        \* line 126: get_uid(&what.uid)?
        WithUid(p) ==
            IF p = 0 THEN Fail(mm, verified, "MetaNotFound")
            ELSE WithPackage(Unwrap(mm.index).packages[p])
    IN  WithUid(get_uid(Unwrap(mm.index), what.uid))

\* one of the two loops of continue_search over a cloned list of wants
RECURSIVE SearchLoop(_, _, _, _)
SearchLoop(list, i, files, st) ==
    IF st.err # "Ok" \/ i > Len(list) THEN st
    ELSE LET Step(r) ==
                 SearchLoop(list, i + 1, files,
                   [mm |-> r.mm, verified |-> r.verified,
                    ret |-> IF r.err = "Ok" THEN st.ret \o r.ret ELSE st.ret,
                    err |-> r.err])
         IN  Step(search_for(st.mm, st.verified, files, list[i]))

\* SearchResult::new
SearchResult_new(requests, uid) ==
    [err |-> "Ok", requests |-> requests, manifests |-> EmptyMap, uid |-> uid]

ErrResult(e) == [err |-> e, requests |-> <<>>, manifests |-> EmptyMap, uid |-> ""]

\* variant: a resolver without wants reports an empty, ready result
continue_search_idle(mm, verified, files) ==
    IF mm.wants = <<>>
    THEN [mm |-> mm, verified |-> verified, res |-> SearchResult_new(<<>>, "")]
    ELSE IF ~IsSome(mm.index)
    THEN [mm |-> mm, verified |-> verified,
          res |-> SearchResult_new(<<new_meta_index(index_url)>>, mm.wants[1].uid)]
    ELSE LET Result(st) ==
                 IF st.err # "Ok"
                 THEN [mm |-> st.mm, verified |-> st.verified, res |-> ErrResult(st.err)]
                 ELSE [mm |-> st.mm, verified |-> st.verified,
                       res |-> [err |-> "Ok", requests |-> st.ret,
                                manifests |-> st.mm.manifests,
                                uid |-> st.mm.wants[1].uid]]
             ExtraWants(st) == Result(SearchLoop(st.mm.extra_wants, 1, files, st))
         IN  ExtraWants(SearchLoop(mm.wants, 1, files,
                          [mm |-> mm, verified |-> verified, ret |-> <<>>, err |-> "Ok"]))

\* MetaManager::continue_search: [mm, verified, res]
continue_search(mm, verified, files) ==
    IF mm.wants = <<>>
    THEN [mm |-> mm, verified |-> verified, res |-> ErrResult("MetaNotFound")]
    ELSE IF ~IsSome(mm.index)
    THEN [mm |-> mm, verified |-> verified,
          res |-> SearchResult_new(<<new_meta_index(index_url)>>, mm.wants[1].uid)]
    ELSE LET Result(st) ==
                 IF st.err # "Ok"
                 THEN [mm |-> st.mm, verified |-> st.verified, res |-> ErrResult(st.err)]
                 ELSE [mm |-> st.mm, verified |-> st.verified,
                       res |-> [err |-> "Ok", requests |-> st.ret,
                                manifests |-> st.mm.manifests,
                                uid |-> st.mm.wants[1].uid]]
             \* for what in self.extra_wants.clone()
             ExtraWants(st) == Result(SearchLoop(st.mm.extra_wants, 1, files, st))
             \* for what in self.wants.clone()
         IN  ExtraWants(SearchLoop(mm.wants, 1, files,
                          [mm |-> mm, verified |-> verified, ret |-> <<>>, err |-> "Ok"]))

\* SearchResult::is_ready
is_ready(res) == res.requests = <<>>

(***************************************************************************)
(* Loaders: [mm, verified, err].  A payload is freshly parsed, so the      *)
(* flags of the artifacts it replaces start false again.                   *)
(***************************************************************************)
LoadErr(mm, verified) == [mm |-> mm, verified |-> verified, err |-> "MetaNotFound"]

\* MetaManager::load_meta_index
load_meta_index(mm, verified, index) ==
    [mm |-> [mm EXCEPT !.index = Some(index)], verified |-> {}, err |-> "Ok"]

\* variant: a package index for a UID the registry lacks is ignored
load_index_lenient(mm, verified, package) ==
    IF ~IsSome(mm.index) THEN LoadErr(mm, verified)
    ELSE LET p == get_uid(Unwrap(mm.index), package.uid)
         IN  IF p = 0 THEN [mm |-> mm, verified |-> verified, err |-> "Ok"]
             ELSE [mm |-> [mm EXCEPT !.index[1].packages[p].index = Some(package)],
                   verified |-> {c \in verified : c.uid # package.uid},
                   err |-> "Ok"]

\* variant: installing a package index drops the package indexes of the
\* other registry entries
load_index_exclusive(mm, verified, package) ==
    IF ~IsSome(mm.index) THEN LoadErr(mm, verified)
    ELSE LET p == get_uid(Unwrap(mm.index), package.uid)
         IN  IF p = 0 THEN LoadErr(mm, verified)
             ELSE [mm |-> [mm EXCEPT !.index[1].packages =
                              [i \in DOMAIN @ |->
                                  [@[i] EXCEPT !.index = IF i = p THEN Some(package)
                                                         ELSE None]]],
                   verified |-> {},
                   err |-> "Ok"]

\* MetaManager::load_index
load_index(mm, verified, package) ==
    IF ~IsSome(mm.index) THEN LoadErr(mm, verified)
    ELSE LET p == get_uid(Unwrap(mm.index), package.uid)
         IN  IF p = 0 THEN LoadErr(mm, verified)
             ELSE [mm |-> [mm EXCEPT !.index[1].packages[p].index = Some(package)],
                   verified |-> {c \in verified : c.uid # package.uid},
                   err |-> "Ok"]

\* MetaManager::load_manifest
load_manifest(mm, verified, manifest) ==
    IF ~IsSome(mm.index) THEN LoadErr(mm, verified)
    ELSE LET p == get_uid(Unwrap(mm.index), manifest.uid)
         IN  IF p = 0 THEN LoadErr(mm, verified)
             ELSE LET index == Unwrap(mm.index).packages[p]
                  IN  IF ~IsSome(index.index) THEN LoadErr(mm, verified)
                      ELSE LET v == find_version(Unwrap(index.index), manifest.version)
                           IN  IF v = 0 THEN LoadErr(mm, verified)
                               ELSE [mm |-> [mm EXCEPT
                                        !.index[1].packages[p].index[1].versions[v].manifest
                                            = Some(manifest)],
                                     verified |-> {c \in verified :
                                        ~(c.uid = manifest.uid /\ c.version = manifest.version)},
                                     err |-> "Ok"]

\* MetaManager::load_asset_index
load_asset_index(mm, verified, uid, version, asset_index) ==
    IF ~IsSome(mm.index) THEN LoadErr(mm, verified)
    ELSE LET p == get_uid(Unwrap(mm.index), uid)
         IN  IF p = 0 THEN LoadErr(mm, verified)
             ELSE LET index == Unwrap(mm.index).packages[p]
                  IN  IF ~IsSome(index.index) THEN LoadErr(mm, verified)
                      ELSE LET v == find_version(Unwrap(index.index), version)
                           IN  IF v = 0 THEN LoadErr(mm, verified)
                               ELSE LET ver == Unwrap(index.index).versions[v]
                                    IN  IF ~IsSome(ver.manifest) THEN LoadErr(mm, verified)
                                        ELSE IF ~IsSome(Unwrap(ver.manifest).asset_index)
                                        THEN LoadErr(mm, verified)
                                        ELSE [mm |-> [mm EXCEPT
                                                 !.index[1].packages[p].index[1].versions[v]
                                                   .manifest[1].asset_index[1].cache
                                                     = Some(asset_index)],
                                              verified |-> {c \in verified :
                                                 ~(c.uid = uid /\ c.version = version
                                                   /\ c.kind = "asset")},
                                              err |-> "Ok"]

\* variant: the error of load_asset_index is swallowed
load_asset_index_reader_silent(mm, verified, uid, version, payload) ==
    [load_asset_index(mm, verified, uid, version, payload) EXCEPT !.err = "Ok"]

\* variant: the parsed asset index is dropped instead of stored in the cache
load_asset_index_reader_dropped(mm, verified, uid, version, payload) ==
    [mm |-> mm, verified |-> verified, err |-> "Ok"]

\* MetaManager::load_asset_index_reader
load_asset_index_reader(mm, verified, uid, version, payload) ==
    load_asset_index(mm, verified, uid, version, payload)

\* MetaManager::load_reader
load_reader(mm, verified, payload, file_type) ==
    CASE file_type = "MetaIndex" -> load_meta_index(mm, verified, payload)
      [] file_type = "Index" -> load_index(mm, verified, payload)
      [] file_type = "Manifest" -> load_manifest(mm, verified, payload)
      [] OTHER -> LoadErr(mm, verified)

(***************************************************************************)
(* Worlds: the UIDs listed by the registry index, the requires lists of    *)
(* a@1 and b@1 (version entry, manifest) and the artifact variant of a@1.  *)
(***************************************************************************)
ReqA1 == Requirement("a", "1")

ReqB1 == Requirement("b", "1")

ReqC1 == Requirement("c", "1")

\* c@2 is not a version of c
ReqC2 == Requirement("c", "2")

\* (version entry requires, manifest requires) of a@1
PairsA ==
    { <<<<>>, <<>>>>,
      <<<<ReqB1>>, <<ReqB1>>>>,
      <<<<ReqB1>>, <<ReqB1, ReqC1>>>>,
      <<<<ReqB1, ReqC1>>, <<ReqB1, ReqC1>>>>,
      <<<<>>, <<ReqC1, ReqB1>>>>,
      <<<<ReqB1, ReqB1>>, <<ReqB1>>>> }

\* (version entry requires, manifest requires) of b@1
PairsB ==
    { <<<<>>, <<>>>>,
      <<<<ReqC1>>, <<ReqC1>>>>,
      <<<<>>, <<ReqC1>>>>,
      <<<<ReqA1>>, <<ReqA1>>>>,
      <<<<>>, <<ReqC2>>>> }

World(registry, pa, pb, art) ==
    [registry |-> registry,
     reqV |-> [a |-> pa[1], b |-> pb[1]],
     reqM |-> [a |-> pa[2], b |-> pb[2]],
     art |-> art]

\* the worlds resolved by the download_meta driver
Worlds ==
    {World(<<"a", "b", "c">>, pa, pb, art) :
        pa \in PairsA, pb \in PairsB,
        art \in {"bare", "libs", "natives", "assets", "unsupported"}}

NoRequires == <<<<>>, <<>>>>

\* the worlds explored with a free caller: one with a chain of requirements
\* and no artifact, and one per artifact variant with a single package
FreeWorlds ==
    {World(<<"a", "b", "c">>, <<<<ReqB1>>, <<ReqB1, ReqC1>>>>, <<<<>>, <<ReqC1>>>>, "bare")}
    \cup {World(<<"a">>, NoRequires, NoRequires, art) :
             art \in {"bare", "libs", "natives", "assets", "unsupported"}}

\* the worlds whose a@1 has a library or a main_jar without a download for
\* the host
PolicyWorlds ==
    {World(<<"a">>, NoRequires, NoRequires, art) :
        art \in {"excluded", "unsupported", "unsupported_jar"}}

\* the wants a caller may search for (a@2 and z@1 are not in the registry)
WantUniverse == {Wants("a", "1"), Wants("b", "2"), Wants("a", "2"), Wants("z", "1")}

\* the libraries (and main_jar) of a@1 that the verifier reads on the host
ReadLibraries(w) ==
    {l \in Range(Artifacts[w.art].libraries) :
        required_for(l, HostOS) /\ IsSome(select_for(l, HostOS))}
    \cup {l \in Range(Artifacts[w.art].main_jar) : IsSome(select_for(l, HostOS))}

\* the assets of a@1
WorldAssets(w) ==
    IF IsSome(Artifacts[w.art].asset_index)
    THEN {o.asset : o \in Range(AssetIndexPayload.objects)}
    ELSE {}

\* path |-> expected digest, for every file the verifier reads in world w
ExpectedFiles(w) ==
    [p \in {Display(path_at_for(l, LibraryPath, HostOS)) : l \in ReadLibraries(w)}
           \cup {Display(asset_path_at(x, AssetsPath)) : x \in WorldAssets(w)} |->
        IF \E l \in ReadLibraries(w) : Display(path_at_for(l, LibraryPath, HostOS)) = p
        THEN Unwrap(select_for(
               CHOOSE l \in ReadLibraries(w) :
                  Display(path_at_for(l, LibraryPath, HostOS)) = p, HostOS)).sha1
        ELSE (CHOOSE x \in WorldAssets(w) : Display(asset_path_at(x, AssetsPath)) = p).hash]

\* content that matches no expected digest
Garbage == <<0>>

(***************************************************************************)
(* What a MetaManager has loaded.                                          *)
(***************************************************************************)
Packages(m) == IF IsSome(m.index) THEN Range(Unwrap(m.index).packages) ELSE {}

IndexLoaded(m, uid) == \E p \in Packages(m) : p.uid = uid /\ IsSome(p.index)

LoadedVersions(m) ==
    UNION {Range(Unwrap(p.index).versions) : p \in {q \in Packages(m) : IsSome(q.index)}}

LoadedManifests(m) ==
    {Unwrap(v.manifest) : v \in {x \in LoadedVersions(m) : IsSome(x.manifest)}}

\* the loaded manifests that an entry of wants or extra_wants names
WantedManifests(m) ==
    {x \in LoadedManifests(m) :
        \E w \in Range(m.wants) \cup Range(m.extra_wants) :
            w.uid = x.uid /\ w.version = x.version}

\* the loaded manifest of (uid, version)
ManifestOf(m, uid, version) ==
    CHOOSE x \in LoadedManifests(m) : x.uid = uid /\ x.version = version

\* the file that the artifact of cell c is verified at
CellPath(m, c) ==
    LET man == ManifestOf(m, c.uid, c.version)
    IN  CASE c.kind = "lib" ->
               Display(path_at_for(man.libraries[c.idx], LibraryPath, HostOS))
          [] c.kind = "main_jar" ->
               Display(path_at_for(Unwrap(man.main_jar), LibraryPath, HostOS))
          [] c.kind = "asset" ->
               Display(asset_path_at(
                  Unwrap(Unwrap(man.asset_index).cache).objects[c.idx].asset, AssetsPath))

\* the files of the artifacts whose verified flag is true
VerifiedFiles(m, v) == {CellPath(m, c) : c \in v}

(***************************************************************************)
(* State.                                                                  *)
(***************************************************************************)
VARIABLES
    world,      \* the metadata served by the registry
    mm,         \* the MetaManager
    verified,   \* the verified cells that are true
    files,      \* the library and asset trees: path |-> Option<digest>
    last,       \* the last MetaManager call and what it returned
    pc,         \* position of the download_meta driver ("free": no driver)
    search_,    \* the driver's local `search`: the SearchResult it is processing
    next,       \* index of the next request of search_ the driver processes
    rounds,     \* number of continue_search() calls the driver has made
    once_verified,  \* history: the files that have verified OK in this session
    disk,       \* the fetcher's file system: path |-> Option<bytes>
    fetch,      \* the last call of the fetcher and what it returned
    target,     \* the OS the launcher is built for (cfg(target_os), OS::get())
    instance,   \* the Instance handed to the launcher
    auth,       \* the identity handed to Java::start
    jars,       \* the native jars of the libraries tree: path |-> Option<archive>
    tree,       \* the files and directories created under the natives directory
    launched,   \* the last call of the launcher and what it returned
    eval        \* a value of the metadata types and the last function applied to it

\* the state of the launcher's components, which the resolver leaves alone
fetch_vars == <<disk, fetch>>

java_vars == <<target, instance, auth, jars, tree, launched>>

launcher_vars == <<fetch_vars, java_vars, eval>>

vars ==
    <<world, mm, verified, files, last, pc, search_, next, rounds, once_verified,
      launcher_vars>>

\* no fetcher call yet
NoFetch == [op |-> "none", request |-> <<>>, response |-> <<>>, err |-> "Ok",
            file |-> None]

\* no launcher call yet
NoLaunch ==
    [op |-> "none", err |-> "Ok", argv |-> <<>>, params |-> <<>>, printed |-> "",
     spawned |-> FALSE, classpath |-> "", os |-> "", meta |-> <<>>]

\* no value under evaluation
NoEval == [op |-> "none", input |-> <<>>, out |-> <<>>]

\* the Java wrapper and the instance before they are used
JavaIdle ==
    /\ target = "linux"
    /\ instance = <<>>
    /\ auth = <<>>
    /\ jars = <<>>
    /\ tree = {}
    /\ launched = NoLaunch

\* the launcher's components before they are used
LauncherIdle ==
    /\ disk = <<>>
    /\ fetch = NoFetch
    /\ JavaIdle
    /\ eval = NoEval

Called(op, res) ==
    [op |-> op, err |-> res.err, requests |-> res.requests,
     manifests |-> res.manifests, uid |-> res.uid]

NoCall == Called("none", ErrResult("Ok"))

Init ==
    /\ world \in FreeWorlds
    /\ mm = new
    /\ verified = {}
    /\ once_verified = {}
    /\ files = [p \in DOMAIN ExpectedFiles(world) |-> None]
    /\ last = NoCall
    /\ pc = "free"
    /\ search_ = ErrResult("Ok")
    /\ next = 0
    /\ rounds = 0
    /\ LauncherIdle

(***************************************************************************)
(* Operations of a free caller.                                            *)
(***************************************************************************)
Search(what) ==
    /\ pc = "free"
    /\ Len(mm.wants) < MaxWants
    /\ mm' = search(mm, what)
    /\ last' = Called("search", ErrResult("Ok"))
    /\ UNCHANGED <<world, verified, files, pc, search_, next, rounds, once_verified,
                 launcher_vars>>

ContinueSearch ==
    /\ pc = "free"
    /\ \E r \in {continue_search(mm, verified, files)} :
           /\ mm' = r.mm
           /\ verified' = r.verified
           /\ once_verified' = once_verified \cup VerifiedFiles(r.mm, r.verified)
           /\ last' = Called("continue_search", r.res)
    /\ UNCHANGED <<world, files, pc, search_, next, rounds, launcher_vars>>

Loaded(r) ==
    /\ mm' = r.mm
    /\ verified' = r.verified
    /\ last' = Called("load", ErrResult(r.err))
    /\ UNCHANGED <<world, files, pc, search_, next, rounds, once_verified,
                 launcher_vars>>

LoadMetaIndex ==
    /\ pc = "free"
    /\ Loaded(load_reader(mm, verified, MetaIndexPayload(world), "MetaIndex"))

LoadIndex(uid) ==
    /\ pc = "free"
    /\ Loaded(load_reader(mm, verified, PackageIndexPayload(world, uid), "Index"))

LoadManifest(uid, version) ==
    /\ pc = "free"
    /\ Loaded(load_reader(mm, verified, ManifestPayload(world, uid, version), "Manifest"))

LoadAssetIndex(uid, version) ==
    /\ pc = "free"
    /\ Loaded(load_asset_index_reader(mm, verified, uid, version, AssetIndexPayload))

\* the fetcher (or anything else) writes a file of the cache
WriteFile(p, digest) ==
    /\ pc = "free"
    /\ files[p] # Some(digest)
    /\ files' = [files EXCEPT ![p] = Some(digest)]
    /\ last' = Called("file", ErrResult("Ok"))
    /\ UNCHANGED <<world, mm, verified, pc, search_, next, rounds, once_verified,
                 launcher_vars>>

DeleteFile(p) ==
    /\ pc = "free"
    /\ files[p] # None
    /\ files' = [files EXCEPT ![p] = None]
    /\ last' = Called("file", ErrResult("Ok"))
    /\ UNCHANGED <<world, mm, verified, pc, search_, next, rounds, once_verified,
                 launcher_vars>>

Next ==
    \/ \E what \in WantUniverse : Search(what)
    \/ ContinueSearch
    \/ LoadMetaIndex
    \/ \E uid \in DOMAIN PkgVersions : LoadIndex(uid)
    \/ \E uid \in DOMAIN PkgVersions : \E version \in Range(PkgVersions[uid]) :
          LoadManifest(uid, version)
    \/ \E uid \in {"a", "b"} : LoadAssetIndex(uid, "1")
    \/ \E p \in DOMAIN files : \E digest \in {ExpectedFiles(world)[p], Garbage} :
          WriteFile(p, digest)
    \/ \E p \in DOMAIN files : DeleteFile(p)

Spec == Init /\ [][Next]_vars

\* the same caller with a registry whose manifest has a library or a
\* main_jar without a download for the host
InitPolicy ==
    /\ world \in PolicyWorlds
    /\ mm = new
    /\ verified = {}
    /\ once_verified = {}
    /\ files = [p \in DOMAIN ExpectedFiles(world) |-> None]
    /\ last = NoCall
    /\ pc = "free"
    /\ search_ = ErrResult("Ok")
    /\ next = 0
    /\ rounds = 0
    /\ LauncherIdle

SpecPolicy == InitPolicy /\ [][Next]_vars

\* the asset servers a caller may configure
AssetUrls == {"https://mirror/assets"}

\* the caller replaces the asset server
SetAssetsUrl(url) ==
    /\ pc = "free"
    /\ mm.assets_url # Some(url)
    /\ mm' = set_assets_url(mm, url)
    /\ last' = Called("set_assets_url", ErrResult("Ok"))
    /\ UNCHANGED <<world, verified, files, pc, search_, next, rounds, once_verified,
                 launcher_vars>>

\* the same caller with a manifest that has an asset index, and the asset
\* server of its choice
InitAssets ==
    /\ world = World(<<"a">>, NoRequires, NoRequires, "assets")
    /\ mm = new
    /\ verified = {}
    /\ once_verified = {}
    /\ files = [p \in DOMAIN ExpectedFiles(world) |-> None]
    /\ last = NoCall
    /\ pc = "free"
    /\ search_ = ErrResult("Ok")
    /\ next = 0
    /\ rounds = 0
    /\ LauncherIdle

NextAssets ==
    \/ Next
    \/ \E url \in AssetUrls : SetAssetsUrl(url)

SpecAssets == InitAssets /\ [][NextAssets]_vars

(***************************************************************************)
(* The download_meta driver (launcher/run.rs): search the wants, then loop *)
(* continue_search / fulfil every returned request until the result is     *)
(* ready or a call fails.  The fetcher is taken to succeed: a file request *)
(* leaves the file with the requested digest, a metadata request yields    *)
(* the payload the registry serves.                                        *)
(***************************************************************************)
\* the wants handed to download_meta (a@2 is not a version of a)
DriverWants == {Wants("a", "1"), Wants("b", "1"), Wants("b", "2"), Wants("a", "2")}

\* the states of the cache the driver may start with: empty, stale, warm
InitialFiles(w) ==
    { [p \in DOMAIN ExpectedFiles(w) |-> None],
      [p \in DOMAIN ExpectedFiles(w) |-> Some(Garbage)],
      [p \in DOMAIN ExpectedFiles(w) |-> Some(ExpectedFiles(w)[p])] }

InitDriver ==
    /\ world \in Worlds
    /\ mm = new
    /\ verified = {}
    /\ once_verified = {}
    /\ files \in InitialFiles(world)
    /\ last = NoCall
    /\ pc = "start"
    /\ search_ = ErrResult("Ok")
    /\ next = 0
    /\ rounds = 0
    /\ LauncherIdle

RECURSIVE SearchAll(_, _)
SearchAll(m, whats) ==
    IF whats = <<>> THEN m ELSE SearchAll(search(m, Head(whats)), Tail(whats))

\* meta.search(wants) and meta.search(..) for every extra package
DriverStart(wants, extras) ==
    /\ pc = "start"
    /\ mm' = SearchAll(mm, <<wants>> \o extras)
    /\ last' = Called("search", ErrResult("Ok"))
    /\ pc' = "loop"
    /\ UNCHANGED <<world, verified, files, search_, next, rounds, once_verified,
                 launcher_vars>>

\* let search = meta.continue_search()?; if search.is_ready() { break search; }
DriverContinue ==
    /\ pc = "loop"
    /\ rounds < MaxRounds
    /\ rounds' = rounds + 1
    /\ \E r \in {continue_search(mm, verified, files)} :
           /\ mm' = r.mm
           /\ verified' = r.verified
           /\ once_verified' = once_verified \cup VerifiedFiles(r.mm, r.verified)
           /\ last' = Called("continue_search", r.res)
           /\ search_' = r.res
           /\ pc' = IF r.res.err # "Ok" THEN "failed"
                    ELSE IF is_ready(r.res) THEN "ready"
                    ELSE "fulfil"
           /\ next' = 1
    /\ UNCHANGED <<world, files, launcher_vars>>

\* FileType::is_file of the request's type
is_file(r) == r.kind \in {"Library", "Asset"}

\* DownloadRequest::get_hash
get_hash(r) ==
    CASE r.kind = "MetaIndex" -> <<>>
      [] r.kind \in {"Index", "Manifest"} -> r.hash
      [] r.kind = "Library" -> r.download.sha1
      [] r.kind = "AssetIndex" -> r.info.sha1
      [] r.kind = "Asset" -> r.asset.hash

\* the payload the fetcher hands back for a metadata request
Fetched(w, r) ==
    CASE r.kind = "MetaIndex" -> MetaIndexPayload(w)
      [] r.kind = "Index" -> PackageIndexPayload(w, r.uid)
      [] r.kind = "Manifest" -> ManifestPayload(w, r.uid, r.version)
      [] r.kind = "AssetIndex" -> AssetIndexPayload

\* the loader call of the driver for a metadata request
DriverLoad(m, v, w, r) ==
    IF r.kind = "AssetIndex"
    THEN load_asset_index_reader(m, v, r.uid, r.version, Fetched(w, r))
    ELSE load_reader(m, v, Fetched(w, r), r.kind)

\* one iteration of `for r in &search.requests`
DriverProcess ==
    /\ pc = "fulfil"
    /\ LET r == search_.requests[next]
           more == next < Len(search_.requests)
       IN  IF is_file(r)
           THEN /\ files' = [files EXCEPT ![r.path] = Some(get_hash(r))]
                /\ pc' = IF more THEN "fulfil" ELSE "loop"
                /\ UNCHANGED <<mm, verified, last>>
           ELSE \E l \in {DriverLoad(mm, verified, world, r)} :
                    /\ mm' = l.mm
                    /\ verified' = l.verified
                    /\ last' = Called("load", ErrResult(l.err))
                    /\ pc' = IF l.err # "Ok" THEN "failed"
                             ELSE IF more THEN "fulfil" ELSE "loop"
                    /\ UNCHANGED files
    /\ next' = next + 1
    /\ UNCHANGED <<world, search_, rounds, once_verified,
                 launcher_vars>>

NextDriver ==
    \/ \E n \in 0..(MaxWants - 1) : \E wants \in DriverWants :
          \E extras \in [1..n -> DriverWants] : DriverStart(wants, extras)
    \/ DriverContinue
    \/ DriverProcess

\* the driver loop runs until it returns
SpecDriver == InitDriver /\ [][NextDriver]_vars /\ WF_vars(NextDriver)

(***************************************************************************)
(* The loop of run_search (launcher/metadata/index.rs), the "index search" *)
(* command: one want, then continue_search / process every returned        *)
(* request until the request list is empty.  The file of an AssetIndex     *)
(* request is downloaded and handed to no loader.                          *)
(***************************************************************************)
InitRunSearch ==
    /\ world \in Worlds
    /\ mm = new
    /\ verified = {}
    /\ once_verified = {}
    /\ files \in InitialFiles(world)
    /\ last = NoCall
    /\ pc = "start"
    /\ search_ = ErrResult("Ok")
    /\ next = 0
    /\ rounds = 0
    /\ LauncherIdle

\* meta_manager.search(wants)?
RunSearchStart(wants) ==
    /\ pc = "start"
    /\ mm' = search(mm, wants)
    /\ last' = Called("search", ErrResult("Ok"))
    /\ pc' = "loop"
    /\ UNCHANGED <<world, verified, files, search_, next, rounds, once_verified,
                 launcher_vars>>

\* one iteration of `for r in &search.requests`
RunSearchProcess ==
    /\ pc = "fulfil"
    /\ LET r == search_.requests[next]
           more == next < Len(search_.requests)
       IN  IF is_file(r)
           THEN /\ files' = [files EXCEPT ![r.path] = Some(get_hash(r))]
                /\ pc' = IF more THEN "fulfil" ELSE "loop"
                /\ UNCHANGED <<mm, verified, last>>
           ELSE IF r.kind = "AssetIndex"
           THEN /\ pc' = IF more THEN "fulfil" ELSE "loop"
                /\ UNCHANGED <<mm, verified, last, files>>
           ELSE \E l \in {load_reader(mm, verified, Fetched(world, r), r.kind)} :
                    /\ mm' = l.mm
                    /\ verified' = l.verified
                    /\ last' = Called("load", ErrResult(l.err))
                    /\ pc' = IF l.err # "Ok" THEN "failed"
                             ELSE IF more THEN "fulfil" ELSE "loop"
                    /\ UNCHANGED files
    /\ next' = next + 1
    /\ UNCHANGED <<world, search_, rounds, once_verified,
                 launcher_vars>>

NextRunSearch ==
    \/ \E wants \in {Wants("a", "1"), Wants("b", "1")} : RunSearchStart(wants)
    \/ DriverContinue
    \/ RunSearchProcess

SpecRunSearch == InitRunSearch /\ [][NextRunSearch]_vars

(***************************************************************************)
(* The fetcher (launcher/metadata/index.rs) and the loop of download_meta  *)
(* (launcher/run.rs) around it.  A file is a sequence of bytes; the server *)
(* answers a GET with a status and a body of its own choice.               *)
(***************************************************************************)
\* the length of the request list the fetcher is driven with
MaxRequests == 2

\* variant: every metadata request, the asset index included, has a SHA-256
hash_size_metadata(r) ==
    CASE r.kind = "MetaIndex" -> 0
      [] r.kind \in {"Library", "Asset"} -> 20
      [] OTHER -> 32

\* DownloadRequest::hash_size
hash_size(r) ==
    CASE r.kind = "MetaIndex" -> 0
      [] r.kind \in {"Library", "AssetIndex", "Asset"} -> 20
      [] OTHER -> 32

\* DownloadRequest::has_hash
has_hash(r) == hash_size(r) # 0

\* DownloadRequest::get_hash_algo
get_hash_algo(r) ==
    CASE r.kind \in {"Index", "Manifest"} -> Some("SHA256")
      [] r.kind \in {"Library", "AssetIndex", "Asset"} -> Some("SHA1")
      [] OTHER -> None

\* DownloadRequest::get_path
get_path(r) == IF r.kind \in {"Library", "Asset"} THEN Some(r.path) ELSE None

\* ring::digest::Context: new, update per byte, finish.  The digest of the
\* model is one byte wide; the bodies below have pairwise different digests.
Digest(algo, bytes) ==
    LET RECURSIVE update(_, _)
        update(h, chunk) ==
            IF chunk = <<>> THEN h
            ELSE update((h * 31 + Head(chunk)) % 256, Tail(chunk))
    IN  <<update(IF algo = "SHA1" THEN 1 ELSE 2, bytes)>>

\* verify_hash: [err, file]
verify_hash(d, filename, request) ==
    IF ~has_hash(request) THEN [err |-> "Request has no hash", file |-> None]
    ELSE IF filename \notin DOMAIN d \/ ~IsSome(d[filename])
    THEN [err |-> "NotFound", file |-> None]
    ELSE IF Digest(Unwrap(get_hash_algo(request)), Unwrap(d[filename]))
              = get_hash(request)
    THEN [err |-> "Ok", file |-> d[filename]]
    ELSE [err |-> "Invalid Hash", file |-> None]

\* OpenOptions write/read/create without truncate, then write_all of the body
\* from offset 0: the bytes of an older, longer file stay behind the body
WriteAll(d, filename, body) ==
    LET old == IF IsSome(d[filename]) THEN Unwrap(d[filename]) ELSE <<>>
    IN  [d EXCEPT ![filename] = Some(body \o SubSeq(old, Len(body) + 1, Len(old)))]

\* variant: the digest of the downloaded bytes is not compared
download_file_unchecked(d, request, res) ==
    LET filename == Unwrap(get_path(request))
    IN  IF verify_hash(d, filename, request).err = "Ok"
        THEN [disk |-> d, err |-> "Ok", got |-> FALSE]
        ELSE IF res.status = "error"
        THEN [disk |-> d, err |-> "Failed to download file", got |-> FALSE]
        ELSE [disk |-> WriteAll(d, filename, res.body), err |-> "Ok", got |-> TRUE]

\* download_file: [disk, err, got]; got: a body was downloaded.  A response
\* with a redirection status is followed once and the body is that of the
\* second response, whose status is not looked at.
download_file(d, request, res) ==
    LET filename == Unwrap(get_path(request))
    IN  IF verify_hash(d, filename, request).err = "Ok"
        THEN [disk |-> d, err |-> "Ok", got |-> FALSE]
        ELSE IF res.status = "error"
        THEN [disk |-> d, err |-> "Failed to download file", got |-> FALSE]
        ELSE [disk |-> WriteAll(d, filename, res.body),
              err |-> IF Digest(Unwrap(get_hash_algo(request)), res.body)
                           # get_hash(request)
                      THEN "Failed to download file, got invalid hash"
                      ELSE "Ok",
              got |-> TRUE]

\* the file download_meta stores the payload of a request in
MetaFilename(request, meta_dir) ==
    CASE request.kind = "MetaIndex" -> Some(meta_dir \o "/index.json")
      [] request.kind = "Index" ->
            Some(meta_dir \o "/" \o request.uid \o "/index.json")
      [] request.kind = "Manifest" ->
            Some(meta_dir \o "/" \o request.uid \o "/" \o request.version \o ".json")
      [] request.kind = "AssetIndex" -> Some(request.path)
      [] OTHER -> None

\* download_meta: [disk, err, file, got]; file: the bytes that the returned
\* File reads from its start.  The comparison of the digest of a downloaded
\* body with the request's hash is commented out in the source.
download_meta(d, request, meta_dir, res) ==
    LET filename == MetaFilename(request, meta_dir)
        Fail(e) == [disk |-> d, err |-> e, file |-> None, got |-> FALSE]
    IN  IF ~IsSome(filename)
        THEN Fail("Could not find location to store meta data in")
        ELSE IF verify_hash(d, Unwrap(filename), request).err = "Ok"
        THEN [disk |-> d, err |-> "Ok",
              file |-> verify_hash(d, Unwrap(filename), request).file,
              got |-> FALSE]
        ELSE IF res.status # "success" THEN Fail("Failed to download file")
        ELSE [disk |-> WriteAll(d, Unwrap(filename), res.body),
              err |-> "Ok",
              file |-> WriteAll(d, Unwrap(filename), res.body)[Unwrap(filename)],
              got |-> TRUE]

\* the payload a request asks for, and bodies that are not it
Genuine == <<1, 2>>

Tampered == <<2, 1>>

\* an older file, longer than the payload
Stale == <<3, 3, 3>>

\* what a GET may answer (the third body is a truncated payload)
Responses ==
    [status : {"success", "redirection"}, body : {Genuine, Tampered, <<1>>}]
    \cup {[status |-> "error", body |-> <<>>]}

MetaCache == "./meta_cache"

\* one request of every type, each with the digest of Genuine as its hash
FetchRequests ==
    { new_meta_index(index_url),
      new_package_index(BaseUrl, [uid |-> "a", sha256 |-> Digest("SHA256", Genuine)]),
      new_package_manifest(BaseUrl, "a",
                           [version |-> "1", sha256 |-> Digest("SHA256", Genuine)]),
      [kind |-> "AssetIndex",
       info |-> AssetIndexInfo("1.18", Digest("SHA1", Genuine), "https://assets/1.18"),
       uid |-> "a", version |-> "1",
       path |-> Display(<<AssetsPath, "indexes", "1.18.json">>)],
      new_library(Download(Digest("SHA1", Genuine), "https://libs/brigadier"),
                  path_at_for(LibBrigadier, LibraryPath, HostOS)),
      AssetRequests(new, <<[asset |-> Asset(Digest("SHA1", Genuine))]>>, "a")[1] }

InitFetch ==
    /\ world \in {w \in FreeWorlds : w.art = "bare" /\ Len(w.registry) = 1}
    /\ mm = new
    /\ verified = {}
    /\ once_verified = {}
    /\ files = <<>>
    /\ last = NoCall
    /\ rounds = 0
    /\ \E n \in 1..MaxRequests : \E requests \in [1..n -> FetchRequests] :
          LET FilenameOf(r) ==
                  IF is_file(r) THEN Unwrap(get_path(r))
                  ELSE Unwrap(MetaFilename(r, MetaCache))
          IN  /\ search_ = SearchResult_new(requests, "a")
              /\ disk \in {d \in [{FilenameOf(r) : r \in FetchRequests} ->
                                   {None, Some(Genuine), Some(Stale)}] :
                              \A r \in FetchRequests \ Range(requests) :
                                  d[FilenameOf(r)] = None}
    /\ next = 1
    /\ pc = "fulfil"
    /\ fetch = NoFetch
    /\ JavaIdle
    /\ eval = NoEval

\* where the loop of download_meta goes after a fetcher call
AfterFetch(err) ==
    IF err # "Ok" THEN "failed"
    ELSE IF next < Len(search_.requests) THEN "fulfil"
    ELSE "loop"

\* if r.is_file() { download_file(&mut client, r).await?; }
FetchFile ==
    /\ pc = "fulfil"
    /\ is_file(search_.requests[next])
    /\ \E res \in Responses :
          \E r \in {download_file(disk, search_.requests[next], res)} :
              /\ disk' = r.disk
              /\ fetch' = [op |-> "download_file", request |-> search_.requests[next],
                           response |-> IF r.got THEN Some(res) ELSE None,
                           err |-> r.err, file |-> None]
              /\ pc' = AfterFetch(r.err)
    /\ next' = next + 1
    /\ UNCHANGED <<world, mm, verified, files, last, search_, rounds, once_verified,
                   java_vars, eval>>

\* else { let (file, f_type) = download_meta(&mut client, r, meta_cache).await?;
\*        if let Some(mut file) = file { (the file is handed to the loader) } }
FetchMeta ==
    /\ pc = "fulfil"
    /\ ~is_file(search_.requests[next])
    /\ \E res \in Responses :
          \E r \in {download_meta(disk, search_.requests[next], MetaCache, res)} :
              /\ disk' = r.disk
              /\ fetch' = [op |-> "download_meta", request |-> search_.requests[next],
                           response |-> IF r.got THEN Some(res) ELSE None,
                           err |-> r.err, file |-> r.file]
              /\ pc' = AfterFetch(r.err)
    /\ next' = next + 1
    /\ UNCHANGED <<world, mm, verified, files, last, search_, rounds, once_verified,
                   java_vars, eval>>

NextFetch == FetchFile \/ FetchMeta

SpecFetch == InitFetch /\ [][NextFetch]_vars

(***************************************************************************)
(* The launch-plan assembler: Instance (instance.rs), Java::start          *)
(* (java_wrapper.rs), Auth (auth.rs), Manifest::build_class_path_at        *)
(* (meta/manifest.rs).  A zip entry name and an exclude string are a list  *)
(* of path components and a flag for a trailing '/'.                       *)
(***************************************************************************)
\* OS::new
OS(name) == [name |-> name]

\* Auth::get_token
get_token(a) == IF a.kind = "Offline" THEN None ELSE Some(a.token)

\* variant: no identity has a UUID
get_uuid_absent(a) == None

\* Auth::get_uuid
get_uuid(a) == IF a.kind = "Offline" THEN None ELSE Some(a.uuid)

\* Auth::get_username: None stands for the panic of unimplemented!()
get_username(a) == IF a.kind = "MSFT" THEN None ELSE Some(a.username)

\* Instance::get_assets_path, get_libraries_path, get_natives_path
get_path_of(inst, override, leaf) ==
    IF IsSome(override) THEN Unwrap(override)
    ELSE Display(<<inst.minecraft_path, leaf>>)

\* Manifest::build_class_path_at: the entries pushed to ret
ClassPathEntries(manifest, path, platform) ==
    LET libs == SelectSeq(manifest.libraries, LAMBDA lib : required_for(lib, platform))
    IN  [i \in 1..Len(libs) |-> Display(path_at(libs[i].name, path))]
          \o [i \in 1..Len(manifest.main_jar) |->
                 Display(path_at(manifest.main_jar[i].name, path))]

\* Manifest::build_class_path_at; tgt is the OS the crate is compiled for:
\* #[cfg(windows)] ret.join(";"), #[cfg(not(windows))] ret.join(":")
build_class_path_at(manifest, path, platform, tgt) ==
    JoinWith(ClassPathEntries(manifest, path, platform),
             IF tgt = "windows" THEN ";" ELSE ":")

\* Instance::get_class_paths; order is the iteration order of the HashMap
get_class_paths(inst, order, tgt) ==
    JoinWith([i \in 1..Len(order) |->
                 build_class_path_at(inst.manifests[order[i]],
                                     get_path_of(inst, inst.libraries_path, "libraries"),
                                     OS(tgt), tgt)],
             IF tgt = "windows" THEN ";" ELSE ":")

\* Instance::get_manifest_extra_jvm_args with Instance::parse_trait
get_manifest_extra_jvm_args(inst, order, platform) ==
    LET parse_trait(jvm_trait) ==
            IF jvm_trait = "FirstThreadOnMacOS" /\ platform.name = "osx"
            THEN <<"-XstartOnFirstThread">>
            ELSE <<>>
        RECURSIVE Traits(_)
        Traits(ts) == IF ts = <<>> THEN <<>> ELSE parse_trait(Head(ts)) \o Traits(Tail(ts))
        RECURSIVE Manifests(_)
        Manifests(uids) ==
            IF uids = <<>> THEN <<>>
            ELSE Traits(inst.manifests[Head(uids)].traits) \o Manifests(Tail(uids))
    IN  Manifests(order)

\* Instance::get_natives
get_natives(inst, order, platform) ==
    LET RECURSIVE Manifests(_)
        Manifests(uids) ==
            IF uids = <<>> THEN <<>>
            ELSE SelectSeq(inst.manifests[Head(uids)].libraries,
                           LAMBDA lib : platform.name \in DOMAIN lib.natives)
                 \o Manifests(Tail(uids))
    IN  Manifests(order)

\* ZipFile::enclosed_name: no path for a name that leaves the directory
enclosed_name(e) == IF ".." \in Range(e.components) THEN None ELSE Some(e.components)

\* Instance::build_natives: [err, path, tree]
build_natives(inst, order, platform, jrs, tr) ==
    LET path == get_path_of(inst, inst.natives_path, "natives")
        \* what one entry of the archive creates.  `continue` in
        \* `for x in &extract.exclude` goes on with the next x, not with the
        \* next entry: outpath.push(path) follows whatever the excludes are
        Entry(lib, e) ==
            IF ~IsSome(enclosed_name(e)) THEN {}
            ELSE LET outpath == <<path>> \o Unwrap(enclosed_name(e))
                 IN  IF e.dir
                     THEN {Display(SubSeq(outpath, 1, n)) : n \in 2..Len(outpath)}
                     ELSE {Display(SubSeq(outpath, 1, n)) : n \in 2..Len(outpath)}
                            \cup {Display(outpath)}
        RECURSIVE Libs(_, _)
        Libs(libs, t) ==
            IF libs = <<>> THEN [err |-> "Ok", path |-> path, tree |-> t]
            ELSE LET jar == Display(path_at_for(
                               Head(libs),
                               get_path_of(inst, inst.libraries_path, "libraries"),
                               platform))
                 IN  IF jar \notin DOMAIN jrs \/ ~IsSome(jrs[jar])
                     THEN [err |-> "NotFound", path |-> path, tree |-> t]
                     ELSE Libs(Tail(libs),
                               t \cup UNION {Entry(Head(libs), e) :
                                               e \in Range(Unwrap(jrs[jar]))})
    IN  Libs(get_natives(inst, order, platform), tr \cup {path})

\* u32::to_string
to_string(n) ==
    LET digit == <<"0", "1", "2", "3", "4", "5", "6", "7", "8", "9">>
        RECURSIVE Digits(_)
        Digits(k) == IF k < 10 THEN digit[k + 1]
                     ELSE Digits(k \div 10) \o digit[(k % 10) + 1]
    IN  Digits(n)

\* variant: the main class is the one of the vanilla client
get_main_class_default(inst) ==
    IF inst.uid \notin DOMAIN inst.manifests THEN None
    ELSE Some("net.minecraft.client.main.Main")

\* instance.manifests.get(&instance.uid) .. .main_class.as_ref()
get_main_class(inst) ==
    IF inst.uid \notin DOMAIN inst.manifests THEN None
    ELSE inst.manifests[inst.uid].main_class

\* Java::start: [err, argv, params, printed, spawned, tree, classpath].
\* The program is "java"; env!("CARGO_PKG_NAME") is "polymc" and
\* env!("CARGO_PKG_VERSION") is written "CARGO_PKG_VERSION".
start(inst, a, order, tgt, jrs, tr) ==
    LET platform == OS(tgt)
        brand == "polymc"
        classpath == get_class_paths(inst, order, tgt)
        natives == build_natives(inst, order, platform, jrs, tr)
        Fail(e) == [err |-> e, argv |-> <<>>, params |-> <<>>, printed |-> "",
                    spawned |-> FALSE, tree |-> natives.tree, classpath |-> classpath]
        Spawn(argv) ==
            LET access_token_pos ==
                    CHOOSE i \in 1..Len(argv) :
                        /\ argv[i] = "--accessToken"
                        /\ \A j \in 1..(i - 1) : argv[j] # "--accessToken"
                command_params == [argv EXCEPT ![access_token_pos + 1] = "<REDACTED>"]
            IN  [err |-> "Ok", argv |-> argv, params |-> command_params,
                 printed |-> "java" \o " " \o JoinWith(command_params, " "),
                 spawned |-> TRUE, tree |-> natives.tree, classpath |-> classpath]
    IN  IF natives.err # "Ok" THEN Fail(natives.err)
        ELSE IF ~IsSome(get_main_class(inst)) THEN Fail("MetaNotFound")
        ELSE IF ~IsSome(inst.manifests[inst.uid].asset_index) THEN Fail("MetaNotFound")
        ELSE IF ~IsSome(get_username(a)) THEN Fail("panic")
        ELSE Spawn(
               get_manifest_extra_jvm_args(inst, order, platform)
               \o inst.java_opts
               \o << "-Xms" \o inst.config.min,
                     "-Xmx" \o inst.config.max,
                     "-Djava.library.path=" \o natives.path,
                     "-Dminecraft.launcher.brand=" \o brand,
                     "-Dminecraft.launcher.version=" \o "CARGO_PKG_VERSION",
                     "-XX:+UnlockExperimentalVMOptions",
                     "-XX:+UseG1GC",
                     "-XX:G1NewSizePercent=20",
                     "-XX:G1ReservePercent=20",
                     "-XX:MaxGCPauseMillis=50",
                     "-XX:G1HeapRegionSize=32M",
                     Unwrap(get_main_class(inst)),
                     "--gameDir", inst.minecraft_path,
                     "--assetsDir", get_path_of(inst, inst.assets_path, "assets"),
                     "--accessToken",
                     IF IsSome(get_token(a)) THEN Unwrap(get_token(a)) ELSE "0",
                     "--uuid",
                     IF IsSome(get_uuid(a)) THEN Unwrap(get_uuid(a)) ELSE "0",
                     "--assetIndex", Unwrap(inst.manifests[inst.uid].asset_index).id,
                     "--width", to_string(inst.config.width),
                     "--height", to_string(inst.config.height),
                     "--username", Unwrap(get_username(a)),
                     "--version", brand,
                     JoinWith(inst.extra_args, " ") >>)

\* the manifests maps an instance is launched with; the native library of
\* every manifest carries the extract rules
ManifestMaps ==
    LET LaunchManifest(uid, traits, main_class, asset_index, libs) ==
            [uid |-> uid, version |-> "1", traits |-> traits,
             libraries |-> libs,
             main_jar |-> IF uid = "a" THEN Some(LibClient) ELSE None,
             main_class |-> main_class, asset_index |-> asset_index]
        index == Some(AssetIndexInfo("1.18", <<24>>, "https://assets/1.18.json"))
        main == Some("net.minecraft.client.main.Main")
        meta_inf == [components |-> <<"META-INF">>, dir |-> TRUE]
        Libs(extract) == <<LibBrigadier, LibObjcBridge, LibLwjgl @@ [extract |-> extract]>>
        Maps(extract) ==
            { EmptyMap,
              "a" :> LaunchManifest("a", <<>>, main, index, Libs(extract)),
              "a" :> LaunchManifest("a", <<>>, None, index, Libs(extract)),
              "a" :> LaunchManifest("a", <<>>, main, None, Libs(extract)),
              "a" :> LaunchManifest("a", <<"FirstThreadOnMacOS">>, main, index,
                                    Libs(extract))
                @@ "b" :> LaunchManifest("b", <<"FirstThreadOnMacOS", "noop">>,
                                         None, None, Libs(extract)),
              \* the manifest of b has no main_jar and one library, for osx only
              "a" :> LaunchManifest("a", <<>>, main, index, Libs(extract))
                @@ "b" :> LaunchManifest("b", <<>>, None, None, <<LibObjcBridge>>) }
    IN  Maps(None) \cup Maps(Some([exclude |-> <<meta_inf>>]))

\* Instance::new, set_extra_args and the java_opts of the caller
Instances ==
    [minecraft_path : {"mc"}, assets_path : {None}, libraries_path : {None},
     natives_path : {None},
     java_opts : {<<>>, <<"-Dfml.x=1">>, <<"--accessToken">>},
     extra_args : {<<>>, <<"--demo">>, <<"--server", "example.org">>},
     config : {[min |-> "512M", max |-> "1024M", width |-> 854, height |-> 480]},
     uid : {"a"},
     manifests : ManifestMaps]

Auths ==
    { [kind |-> "Offline", username |-> "p"],
      [kind |-> "Mojang", username |-> "p", token |-> "tok", uuid |-> "u-1"],
      [kind |-> "MSFT", username |-> "p", token |-> "tok", uuid |-> "u-1",
       refresh_token |-> "r"] }

\* the archives of the native jar
Archives ==
    LET meta_inf == [components |-> <<"META-INF">>, dir |-> TRUE]
        manifest_mf == [components |-> <<"META-INF", "MANIFEST.MF">>, dir |-> FALSE]
        so == [components |-> <<"liblwjgl.so">>, dir |-> FALSE]
        evil == [components |-> <<"..", "evil.so">>, dir |-> FALSE]
    IN  { <<meta_inf, manifest_mf, so>>, <<so>>, <<evil, so>> }

Targets == {"linux", "osx", "windows"}

\* the orders a HashMap may iterate its keys in
Orders(map) ==
    {order \in [1..Cardinality(DOMAIN map) -> DOMAIN map] :
        \A i, j \in DOMAIN order : i # j => order[i] # order[j]}

InitLaunch ==
    /\ world \in {w \in FreeWorlds : w.art = "bare" /\ Len(w.registry) = 1}
    /\ mm = new
    /\ verified = {}
    /\ once_verified = {}
    /\ files = <<>>
    /\ last = NoCall
    /\ rounds = 0
    /\ search_ = ErrResult("Ok")
    /\ next = 0
    /\ pc = "free"
    /\ disk = <<>>
    /\ fetch = NoFetch
    /\ target \in Targets
    /\ instance \in Instances
    /\ auth \in Auths
    /\ jars \in [{Display(path_at_for(LibLwjgl, "mc/libraries", OS("linux")))} ->
                    {None} \cup {Some(x) : x \in Archives}]
    /\ tree = {}
    /\ launched = NoLaunch
    /\ eval = NoEval

\* what a launcher call was given and returned
Launched(op, r, os, meta) ==
    [op |-> op, err |-> r.err, argv |-> r.argv, params |-> r.params,
     printed |-> r.printed, spawned |-> r.spawned, classpath |-> r.classpath,
     os |-> os, meta |-> meta]

\* java.start(&instance, auth)
Start ==
    /\ \E order \in Orders(instance.manifests) :
          \E r \in {start(instance, auth, order, target, jars, tree)} :
              /\ launched' = Launched("start", r, target, None)
              /\ tree' = r.tree
    /\ UNCHANGED <<world, mm, verified, files, last, pc, search_, next, rounds,
                   once_verified, fetch_vars, eval, target, instance, auth, jars>>

\* instance.build_natives()
BuildNatives ==
    /\ \E order \in Orders(instance.manifests) :
          \E r \in {build_natives(instance, order, OS(target), jars, tree)} :
              /\ launched' = Launched("build_natives",
                                       [err |-> r.err, argv |-> <<>>, params |-> <<>>,
                                        printed |-> r.path, spawned |-> FALSE,
                                        classpath |-> ""],
                                       target, None)
              /\ tree' = r.tree
    /\ UNCHANGED <<world, mm, verified, files, last, pc, search_, next, rounds,
                   once_verified, fetch_vars, eval, target, instance, auth, jars>>

\* run_lib: println!("{}", meta.build_class_path_at(dir, &OS::new(os)))
RunLib(meta, os) ==
    /\ launched' = Launched("run_lib",
                             [err |-> "Ok", argv |-> <<>>, params |-> <<>>,
                              printed |-> build_class_path_at(meta, "dir", OS(os), target),
                              spawned |-> FALSE,
                              classpath |-> build_class_path_at(meta, "dir", OS(os),
                                                                target)],
                             os, Some(meta))
    /\ UNCHANGED <<world, mm, verified, files, last, pc, search_, next, rounds,
                   once_verified, fetch_vars, eval, target, instance, auth, jars, tree>>

NextLaunch ==
    \/ Start
    \/ BuildNatives
    \/ \E uid \in DOMAIN instance.manifests : \E os \in Targets :
          RunLib(instance.manifests[uid], os)

SpecLaunch == InitLaunch /\ [][NextLaunch]_vars

(***************************************************************************)
(* Vocabulary of the claims.                                               *)
(***************************************************************************)
\* (uid, version) is served by the registry of world w
Exists(w, what) ==
    /\ what.uid \in Range(w.registry)
    /\ what.version \in Range(PkgVersions[what.uid])

\* the wants reachable from a set of wants through the requires lists
RECURSIVE Closure(_, _)
Closure(w, whats) ==
    LET more == {WantsFrom(r) : r \in UNION {
                    Range(VersionRequires(w, x.uid, x.version))
                    \cup Range(ManifestRequires(w, x.uid, x.version)) :
                    x \in {y \in whats : Exists(w, y)}}}
    IN  IF more \subseteq whats THEN whats ELSE Closure(w, whats \cup more)

\* every wanted and transitively required UID/version exists in the registry
AllWantedExist ==
    \A x \in Closure(world, Range(mm.wants)) : Exists(world, x)

\* a library (or main_jar) that verification cannot select an artifact for
Unselectable(manifest) ==
    \/ \E l \in Range(manifest.libraries) :
          required_for(l, HostOS) /\ ~IsSome(select_for(l, HostOS))
    \/ \E l \in Range(manifest.main_jar) : ~IsSome(select_for(l, HostOS))

\* no wanted or transitively required manifest has an unselectable library
AllSelectable ==
    \A x \in Closure(world, Range(mm.wants)) :
        Exists(world, x) => ~Unselectable(ManifestPayload(world, x.uid, x.version))

Ready(res) == res.err = "Ok" /\ res.requests = <<>>

C2_Idempotent ==
    [][(last.op = "continue_search" /\ Ready(last) /\ ContinueSearch)
          => (Ready(last') /\ mm' = mm)]_vars

\* every entry of l with uid u has version v
OnlyVersion(l, u, v) == \A i \in 1..Len(l) : l[i].uid = u => l[i].version = v

\* the resolver holds no want for u with a version other than v
Unpinned(u, v) == OnlyVersion(mm.wants, u, v) /\ OnlyVersion(mm.extra_wants, u, v)

HasManifest(ms, u, v) == u \in DOMAIN ms /\ ms[u].uid = u /\ ms[u].version = v

(***************************************************************************)
(* C3: whenever continue_search() returns an empty request list, the       *)
(* returned manifests map has a manifest for every UID that is in wants or *)
(* extra_wants when the call returns.                                      *)
(***************************************************************************)
C3_ReadyHasAllManifests ==
    (last.op = "continue_search" /\ Ready(last)) =>
        \A w \in Range(mm.wants) \cup Range(mm.extra_wants) :
            w.uid \in DOMAIN last.manifests

(***************************************************************************)
(* C4: for any Wants(U, V) held by the resolver whose manifest requires U' *)
(* with suggested version V', every result with an empty request list has  *)
(* the manifests of (U, V) and of (U', V').  (Stated for wants that are    *)
(* not pinned to another version of the same UID.)                         *)
(***************************************************************************)
C4_TransitiveClosure ==
    (last.op = "continue_search" /\ Ready(last)) =>
        \A w \in Range(mm.wants) \cup Range(mm.extra_wants) :
            (Exists(world, w) /\ Unpinned(w.uid, w.version)) =>
                \A r \in Range(ManifestRequires(world, w.uid, w.version)) :
                    Unpinned(r.uid, r.suggests) =>
                        /\ HasManifest(last.manifests, w.uid, w.version)
                        /\ HasManifest(last.manifests, r.uid, r.suggests)

\* the Library request that search_for emits for library l
LibraryRequest(l) ==
    new_library(Unwrap(select_for(l, HostOS)), path_at_for(l, LibraryPath, HostOS))

(***************************************************************************)
(* C5: a continue_search() emits an Index request for a UID only with the  *)
(* registry index loaded, a Manifest request for (UID, version) only with  *)
(* that UID's package index loaded, Library and AssetIndex requests only   *)
(* for a loaded manifest, and Asset requests only for a manifest whose     *)
(* asset index is loaded.                                                  *)
(***************************************************************************)
C5_HappensBefore ==
    last.op = "continue_search" =>
        \A r \in Range(last.requests) :
            /\ r.kind = "Index" => IsSome(mm.index)
            /\ r.kind = "Manifest" => IndexLoaded(mm, r.uid)
            /\ r.kind = "Library" =>
                  \E m \in LoadedManifests(mm) :
                      \E l \in Range(m.libraries) \cup Range(m.main_jar) :
                          IsSome(select_for(l, HostOS)) /\ r = LibraryRequest(l)
            /\ r.kind = "AssetIndex" =>
                  \E m \in LoadedManifests(mm) :
                      /\ m.uid = r.uid /\ m.version = r.version
                      /\ m.asset_index = Some(r.info)
            /\ r.kind = "Asset" =>
                  \E m \in LoadedManifests(mm) :
                      /\ m.uid = r.uid
                      /\ \E ai \in Range(m.asset_index) : \E c \in Range(ai.cache) :
                            \E o \in Range(c.objects) : o.asset = r.asset

C5_Witness ==
    /\ last.op = "continue_search"
    /\ \E r \in Range(last.requests) : r.kind = "Asset"

(***************************************************************************)
(* C6: with at least one want and the registry index not loaded,           *)
(* continue_search() returns exactly one request, a MetaIndex request for  *)
(* <base_url>/index.json, returns an empty manifests map and changes no    *)
(* resolver state.                                                         *)
(***************************************************************************)
C6_RegistryFirst ==
    (mm.wants # <<>> /\ ~IsSome(mm.index)) =>
        LET r == continue_search(mm, verified, files)
        IN  /\ r.res.err = "Ok"
            /\ r.res.requests = <<[kind |-> "MetaIndex", url |-> BaseUrl \o "/index.json"]>>
            /\ r.res.manifests = EmptyMap
            /\ r.mm = mm

C6_Witness ==
    /\ last.op = "continue_search"
    /\ ~IsSome(mm.index)
    /\ Len(mm.wants) > 1
    /\ Len(last.requests) = 1

LibFileMatches(l) ==
    /\ IsSome(select_for(l, HostOS))
    /\ FileDigest(files, path_at_for(l, LibraryPath, HostOS))
          = Some(Unwrap(select_for(l, HostOS)).sha1)

AssetFileMatches(x) == FileDigest(files, asset_path_at(x, AssetsPath)) = Some(x.hash)

\* every file the manifests ms expect is on disk with the expected SHA-1
AllFilesMatch(ms) ==
    \A m \in ms :
        /\ \A l \in Range(m.libraries) : required_for(l, HostOS) => LibFileMatches(l)
        /\ \A l \in Range(m.main_jar) : LibFileMatches(l)
        /\ \A ai \in Range(m.asset_index) : \A c \in Range(ai.cache) :
              \A o \in Range(c.objects) : AssetFileMatches(o.asset)

(***************************************************************************)
(* C7: if for every resolved manifest every library required for the host, *)
(* the main_jar and (with the asset index loaded) every asset is on disk at *)
(* its expected path with its SHA-1, continue_search() emits no Library     *)
(* and no Asset request.                                                    *)
(***************************************************************************)
C7_RoundTrip ==
    LET r == continue_search(mm, verified, files)
    IN  AllFilesMatch(WantedManifests(r.mm)) =>
            \A q \in Range(r.res.requests) : q.kind \notin {"Library", "Asset"}

C7_Witness ==
    /\ last.op = "continue_search"
    /\ Ready(last)
    /\ AllFilesMatch(WantedManifests(mm))
    /\ \E m \in WantedManifests(mm) :
          \E l \in Range(m.libraries) : DOMAIN l.natives # {}

\* how many entries of reqs equal r
Count(reqs, r) == Cardinality({i \in 1..Len(reqs) : reqs[i] = r})

\* library i of manifest m is required, not yet verified, and its file is on
\* disk with a SHA-1 other than the selected download's
Mismatched(m, i) ==
    LET l == m.libraries[i]
    IN  /\ required_for(l, HostOS)
        /\ IsSome(select_for(l, HostOS))
        /\ Cell(m.uid, m.version, "lib", i) \notin verified
        /\ IsSome(FileDigest(files, path_at_for(l, LibraryPath, HostOS)))
        /\ ~LibFileMatches(l)

(***************************************************************************)
(* C8: when the file of a required library of a resolved manifest is on    *)
(* disk with a SHA-1 other than the selected download's, a continue_search *)
(* that succeeds emits exactly one Library request for that library; once  *)
(* the file holds bytes matching sha1, the next continue_search() emits no *)
(* Library request for it.                                                 *)
(***************************************************************************)
C8_Redownload ==
    \A m \in WantedManifests(mm) : \A i \in 1..Len(m.libraries) :
        Mismatched(m, i) =>
            LET l == m.libraries[i]
                r == continue_search(mm, verified, files)
                p == Display(path_at_for(l, LibraryPath, HostOS))
                replaced == [files EXCEPT ![p] = Some(Unwrap(select_for(l, HostOS)).sha1)]
                again == continue_search(r.mm, r.verified, replaced)
            IN  r.res.err = "Ok" =>
                    /\ Count(r.res.requests, LibraryRequest(l)) = 1
                    /\ Count(again.res.requests, LibraryRequest(l)) = 0

(***************************************************************************)
(* C9 (as stated): a verified flag only ever changes from false to true,   *)
(* so no continue_search() emits a Library or Asset request for a file     *)
(* that has verified OK earlier in the session.                            *)
(***************************************************************************)
C9_Original ==
    last.op = "continue_search" =>
        \A r \in Range(last.requests) :
            r.kind \in {"Library", "Asset"} => r.path \notin once_verified

(***************************************************************************)
(* C9 (amended): the verified flag of an artifact goes back to false only  *)
(* when a load replaces the registry index, the package index or the       *)
(* manifest that holds it (for an asset: also the asset index); while it   *)
(* is true, continue_search() keeps it true and emits no Library or Asset  *)
(* request for the artifact's file, whatever has become of the file.       *)
(***************************************************************************)
C9_VerifiedCache ==
    [][/\ \A c \in verified \ verified' :
            \/ LoadMetaIndex
            \/ LoadIndex(c.uid)
            \/ LoadManifest(c.uid, c.version)
            \/ (c.kind = "asset" /\ LoadAssetIndex(c.uid, c.version))
       /\ ContinueSearch =>
            \A c \in verified :
                /\ c \in verified'
                /\ \A r \in Range(last'.requests) :
                      r.kind \in {"Library", "Asset"} => r.path # CellPath(mm, c)]_vars

C9_Witness ==
    /\ last.op = "continue_search"
    /\ last.err = "Ok"
    /\ \E c \in verified : files[CellPath(mm, c)] = None
    /\ \E c \in verified : files[CellPath(mm, c)] = Some(Garbage)

\* the wants continue_search() iterates over, in order
Entries(m) == m.wants \o m.extra_wants

VersionListed(package_index, version) ==
    \E i \in 1..Len(package_index.versions) : package_index.versions[i].version = version

\* the want's UID is not in the registry, or its package index is loaded and
\* lists no such version
Unknown(m, w) ==
    \/ \A p \in Packages(m) : p.uid # w.uid
    \/ \E p \in Packages(m) :
          p.uid = w.uid /\ IsSome(p.index) /\ ~VersionListed(Unwrap(p.index), w.version)

\* the want's manifest is loaded and has a library without a selectable artifact
Unsupported(m, w) ==
    \E x \in LoadedManifests(m) :
        x.uid = w.uid /\ x.version = w.version /\ Unselectable(x)

(***************************************************************************)
(* C10 (as stated): with the registry loaded, continue_search() fails with *)
(* MetaNotFound when an entry of wants or extra_wants has a UID that the   *)
(* registry lacks, or a version that its loaded package index lacks.       *)
(***************************************************************************)
C10_Original ==
    (IsSome(mm.index) /\ mm.wants # <<>>
        /\ \E i \in 1..Len(Entries(mm)) : Unknown(mm, Entries(mm)[i])) =>
        continue_search(mm, verified, files).res.err = "MetaNotFound"

(***************************************************************************)
(* C10 (amended): in that case continue_search() fails: with MetaNotFound, *)
(* unless an entry before the first such entry has a loaded manifest with  *)
(* a library that has no artifact for the host, and then with              *)
(* LibraryNotSupported.                                                    *)
(***************************************************************************)
C10_MetaNotFound ==
    (IsSome(mm.index) /\ mm.wants # <<>>
        /\ \E i \in 1..Len(Entries(mm)) : Unknown(mm, Entries(mm)[i])) =>
        LET first == CHOOSE i \in 1..Len(Entries(mm)) :
                        /\ Unknown(mm, Entries(mm)[i])
                        /\ \A j \in 1..(i - 1) : ~Unknown(mm, Entries(mm)[j])
            e == continue_search(mm, verified, files).res.err
        IN  IF \E j \in 1..(first - 1) : Unsupported(mm, Entries(mm)[j])
            THEN e = "LibraryNotSupported"
            ELSE e = "MetaNotFound"

C10_Witness ==
    /\ last.op = "continue_search"
    /\ last.err = "MetaNotFound"
    /\ IsSome(mm.index)
    /\ \E p \in Packages(mm) : \E w \in Range(mm.wants) :
          p.uid = w.uid /\ IsSome(p.index) /\ ~VersionListed(Unwrap(p.index), w.version)

\* the position of the registry entry of uid (0: none)
EntryOf(m, uid) ==
    IF ~IsSome(m.index) \/ \A p \in Packages(m) : p.uid # uid THEN 0
    ELSE CHOOSE i \in 1..Len(Unwrap(m.index).packages) :
            /\ Unwrap(m.index).packages[i].uid = uid
            /\ \A j \in 1..(i - 1) : Unwrap(m.index).packages[j].uid # uid

\* the position of the version entry of a loaded package index (0: none)
VersionEntryOf(package_index, version) ==
    IF ~VersionListed(package_index, version) THEN 0
    ELSE CHOOSE i \in 1..Len(package_index.versions) :
            /\ package_index.versions[i].version = version
            /\ \A j \in 1..(i - 1) : package_index.versions[j].version # version

\* a version that no package index lists
StrayVersion == "9"

(***************************************************************************)
(* C11: load_index(package) installs the package index into the registry   *)
(* entry of package.uid, load_manifest(m) installs m into the version      *)
(* entry (m.uid, m.version), and nothing else changes; each fails with     *)
(* MetaNotFound and changes nothing when the registry is not loaded, the   *)
(* UID is unknown or (manifest) the package index is not loaded or lists   *)
(* no such version.                                                        *)
(***************************************************************************)
C11_Loaders ==
    /\ \A uid \in DOMAIN PkgVersions :
          LET package == PackageIndexPayload(world, uid)
              r == load_index(mm, verified, package)
              e == EntryOf(mm, uid)
          IN  IF e # 0
              THEN /\ r.err = "Ok"
                   /\ r.mm = [mm EXCEPT !.index[1].packages[e].index = Some(package)]
              ELSE r.err = "MetaNotFound" /\ r.mm = mm
    /\ \A uid \in DOMAIN PkgVersions :
          \A version \in Range(PkgVersions[uid]) \cup {StrayVersion} :
              LET manifest == ManifestPayload(world, uid, version)
                  r == load_manifest(mm, verified, manifest)
                  e == EntryOf(mm, uid)
                  v == IF e # 0 /\ IsSome(Unwrap(mm.index).packages[e].index)
                       THEN VersionEntryOf(Unwrap(Unwrap(mm.index).packages[e].index),
                                           version)
                       ELSE 0
              IN  IF v # 0
                  THEN /\ r.err = "Ok"
                       /\ r.mm = [mm EXCEPT
                             !.index[1].packages[e].index[1].versions[v].manifest
                                = Some(manifest)]
                  ELSE r.err = "MetaNotFound" /\ r.mm = mm

C11_Witness ==
    /\ last.op = "load"
    /\ last.err = "MetaNotFound"
    /\ LoadedManifests(mm) # {}
    /\ \E p \in Packages(mm) : ~IsSome(p.index)

\* the manifest of (uid, version) is installed and names an asset index
NamesAssetIndex(m, uid, version) ==
    \E x \in LoadedManifests(m) :
        x.uid = uid /\ x.version = version /\ IsSome(x.asset_index)

(***************************************************************************)
(* C12: load_asset_index_reader(uid, version, payload) caches the parsed   *)
(* asset index on the asset_index of the manifest installed for            *)
(* (uid, version), and the continue_search() that follows emits no         *)
(* AssetIndex request for that manifest; it fails with MetaNotFound,       *)
(* changing nothing, when the registry, the UID, its package index, the    *)
(* version, its manifest or the manifest's asset_index is absent.          *)
(***************************************************************************)
C12_AssetIndexCached ==
    \A uid \in DOMAIN PkgVersions :
        \A version \in Range(PkgVersions[uid]) \cup {StrayVersion} :
            LET r == load_asset_index_reader(mm, verified, uid, version,
                                             AssetIndexPayload)
            IN  IF NamesAssetIndex(mm, uid, version)
                THEN /\ r.err = "Ok"
                     /\ Unwrap(ManifestOf(r.mm, uid, version).asset_index).cache
                           = Some(AssetIndexPayload)
                     /\ \A q \in Range(continue_search(r.mm, r.verified, files)
                                         .res.requests) :
                           ~(q.kind = "AssetIndex" /\ q.uid = uid
                             /\ q.version = version)
                ELSE r.err = "MetaNotFound" /\ r.mm = mm

\* an asset index was just cached for a wanted manifest
C12_Witness ==
    /\ last.op = "load"
    /\ last.err = "Ok"
    /\ \E x \in WantedManifests(mm) :
          /\ IsSome(x.asset_index)
          /\ Unwrap(x.asset_index).cache = Some(AssetIndexPayload)
    /\ mm.wants # <<>>

(***************************************************************************)
(* C13: for a request that carries an expected hash, download_meta hands   *)
(* a file to the caller only if the digest of the file's bytes equals the  *)
(* request's hash, for a cached file and for a freshly downloaded one.     *)
(***************************************************************************)
C13_MetadataIntegrity ==
    (fetch.op = "download_meta" /\ has_hash(fetch.request) /\ IsSome(fetch.file))
        => Digest(Unwrap(get_hash_algo(fetch.request)), Unwrap(fetch.file))
              = get_hash(fetch.request)

(***************************************************************************)
(* C14: when the digest of the bytes that download_file has just           *)
(* downloaded for a Library or Asset request differs from the request's    *)
(* hash, download_file returns an error and the loop of download_meta      *)
(* stops: no later request of the list is processed.                       *)
(***************************************************************************)
C14_FileHashMismatch ==
    (/\ fetch.op = "download_file"
     /\ IsSome(fetch.response)
     /\ Digest(Unwrap(get_hash_algo(fetch.request)), Unwrap(fetch.response).body)
           # get_hash(fetch.request))
        => /\ fetch.err = "Failed to download file, got invalid hash"
           /\ pc = "failed"
           /\ ~ENABLED NextFetch

\* a tampered library was downloaded while another request was still waiting
C14_Witness ==
    /\ fetch.op = "download_file"
    /\ fetch.request.kind = "Library"
    /\ fetch.response = Some([status |-> "success", body |-> Tampered])
    /\ pc = "failed"
    /\ next <= Len(search_.requests)

\* the libraries of the instance whose natives map names the build target
NativeLibs ==
    UNION {{lib \in Range(instance.manifests[uid].libraries) :
               target \in DOMAIN lib.natives} : uid \in DOMAIN instance.manifests}

\* the jar build_natives opens for a native library
NativeJar(lib) == Display(path_at_for(lib, "mc/libraries", OS(target)))

\* every jar build_natives opens is there
NativesReady == \A lib \in NativeLibs : IsSome(jars[NativeJar(lib)])

\* the path of a zip entry equals or starts with an exclude entry
Matches(e, x) ==
    /\ Len(x.components) <= Len(e.components)
    /\ SubSeq(e.components, 1, Len(x.components)) = x.components

(***************************************************************************)
(* C15: after build_natives() has extracted the classifier jar of a native *)
(* library, no entry of the archive whose path equals or starts with an    *)
(* entry of the library's extract.exclude list exists under the natives    *)
(* directory.                                                              *)
(***************************************************************************)
C15_NativesExclusion ==
    (launched.op \in {"build_natives", "start"} /\ NativesReady) =>
        \A lib \in NativeLibs :
            IsSome(lib.extract) =>
                \A e \in Range(Unwrap(jars[NativeJar(lib)])) :
                    \A x \in Range(Unwrap(lib.extract).exclude) :
                        Matches(e, x) =>
                            Display(<<"mc/natives">> \o e.components) \notin tree

(***************************************************************************)
(* C16: the argument list that Java::start prints for diagnostics holds    *)
(* the access token of the identity nowhere, and the element that follows  *)
(* --accessToken in the game arguments is the redaction placeholder.       *)
(***************************************************************************)
C16_TokenRedaction ==
    (launched.op = "start" /\ launched.err = "Ok") =>
        /\ \A t \in Range(get_token(auth)) : t \notin Range(launched.params)
        /\ LET game == CHOOSE i \in 1..Len(launched.argv) :
                          /\ launched.argv[i] = "--accessToken"
                          /\ \A j \in (i + 1)..Len(launched.argv) :
                                launched.argv[j] # "--accessToken"
           IN  launched.params[game + 1] = "<REDACTED>"

\* the number of traits of the instance's manifests that name the macOS flag
FirstThreadTraits ==
    Cardinality({ut \in UNION {{<<uid, i>> :
                                  i \in DOMAIN instance.manifests[uid].traits} :
                               uid \in DOMAIN instance.manifests} :
                    instance.manifests[ut[1]].traits[ut[2]] = "FirstThreadOnMacOS"})

\* the argument vector up to --version <brand>
ArgvShape ==
    [i \in 1..(IF target = "osx" THEN FirstThreadTraits ELSE 0) |->
        "-XstartOnFirstThread"]
    \o instance.java_opts
    \o << "-Xms512M", "-Xmx1024M", "-Djava.library.path=mc/natives",
          "-Dminecraft.launcher.brand=polymc",
          "-Dminecraft.launcher.version=CARGO_PKG_VERSION",
          "-XX:+UnlockExperimentalVMOptions", "-XX:+UseG1GC",
          "-XX:G1NewSizePercent=20", "-XX:G1ReservePercent=20",
          "-XX:MaxGCPauseMillis=50", "-XX:G1HeapRegionSize=32M",
          IF "a" \in DOMAIN instance.manifests /\ IsSome(instance.manifests["a"].main_class)
          THEN Unwrap(instance.manifests["a"].main_class) ELSE "",
          "--gameDir", "mc", "--assetsDir", "mc/assets",
          "--accessToken", IF auth.kind = "Offline" THEN "0" ELSE auth.token,
          "--uuid", IF auth.kind = "Offline" THEN "0" ELSE auth.uuid,
          "--assetIndex", "1.18", "--width", "854", "--height", "480",
          "--username", auth.username, "--version", "polymc" >>

(***************************************************************************)
(* C17: the argument vector built by Java::start is, in this order: trait  *)
(* flags, user JVM opts, -Xms<min>, -Xmx<max>, -Djava.library.path=<dir>,  *)
(* the brand and version properties, the six G1 flags, the main class of   *)
(* the primary manifest, --gameDir, --assetsDir, --accessToken, --uuid,    *)
(* --assetIndex, --width, --height, --username, --version <brand>, each    *)
(* with its value; token and uuid are "0" for an offline identity.         *)
(***************************************************************************)
C17_ArgvShape ==
    (launched.op = "start" /\ launched.err = "Ok") =>
        /\ Len(launched.argv) >= Len(ArgvShape)
        /\ SubSeq(launched.argv, 1, Len(ArgvShape)) = ArgvShape

C17_Witness ==
    /\ launched.op = "start"
    /\ launched.err = "Ok"
    /\ launched.spawned
    /\ target = "osx"
    /\ launched.argv[1] = "-XstartOnFirstThread"
    /\ instance.java_opts # <<>>
    /\ auth.kind = "Mojang"

(***************************************************************************)
(* C18: the argument vector ends with --version <brand> followed by the    *)
(* extra args of the caller, each as an element of its own and in the      *)
(* given order; with no extra args <brand> is the last element.            *)
(***************************************************************************)
C18_ExtraArgs ==
    (launched.op = "start" /\ launched.err = "Ok") =>
        launched.argv = ArgvShape \o instance.extra_args

\* the primary manifest, its main_class or its asset_index is missing
PrimaryIncomplete ==
    \/ instance.uid \notin DOMAIN instance.manifests
    \/ ~IsSome(instance.manifests[instance.uid].main_class)
    \/ ~IsSome(instance.manifests[instance.uid].asset_index)

\* C19 as stated: the error is MetaNotFound whatever else fails
C19_Original ==
    (launched.op = "start" /\ PrimaryIncomplete) =>
        launched.err = "MetaNotFound" /\ ~launched.spawned

(***************************************************************************)
(* C19: when the manifests map has no manifest for the primary UID, or the *)
(* primary manifest has no main_class or no asset_index, Java::start fails *)
(* and spawns no child; the error is MetaNotFound when build_natives,      *)
(* which runs before the lookups, has succeeded, and the error of          *)
(* build_natives otherwise.                                                *)
(***************************************************************************)
C19_MetaNotFound ==
    (launched.op = "start" /\ PrimaryIncomplete) =>
        /\ ~launched.spawned
        /\ launched.err = IF NativesReady THEN "MetaNotFound" ELSE "NotFound"

C19_Witness ==
    /\ launched.op = "start"
    /\ launched.err = "MetaNotFound"
    /\ instance.uid \in DOMAIN instance.manifests
    /\ ~IsSome(instance.manifests[instance.uid].main_class)
    /\ NativeLibs # {}
    /\ "mc/natives/liblwjgl.so" \in tree

(***************************************************************************)
(* C20: the classpath assembled for a platform (the OS passed to           *)
(* build_class_path_at by run_lib, the host of get_class_paths) joins its  *)
(* entries with ';' if and only if that platform is Windows, and with ':'  *)
(* otherwise.                                                              *)
(***************************************************************************)
C20_Separator ==
    /\ launched.op = "run_lib" =>
          launched.classpath =
             JoinWith(ClassPathEntries(Unwrap(launched.meta), "dir", OS(launched.os)),
                      IF launched.os = "windows" THEN ";" ELSE ":")
    /\ launched.op = "start" =>
          \E order \in Orders(instance.manifests) :
             launched.classpath =
                JoinWith([i \in 1..Len(order) |->
                            JoinWith(ClassPathEntries(instance.manifests[order[i]],
                                                      "mc/libraries", OS(target)),
                                     IF target = "windows" THEN ";" ELSE ":")],
                         IF target = "windows" THEN ";" ELSE ":")

(***************************************************************************)
(* C21  Classpath content.  A string splits on the separator into a list   *)
(* of non-empty, separator-free entries exactly when it is that list       *)
(* joined with the separator.                                              *)
(***************************************************************************)
\* the entries of the manifests, in the order the map is iterated in
ClassPathOf(inst, order, tgt) ==
    LET RECURSIVE Manifests(_)
        Manifests(uids) ==
            IF uids = <<>> THEN <<>>
            ELSE ClassPathEntries(inst.manifests[Head(uids)],
                                  get_path_of(inst, inst.libraries_path, "libraries"),
                                  OS(tgt))
                 \o Manifests(Tail(uids))
    IN  Manifests(order)

\* C21: the class path that Instance::get_class_paths returns is the join,
\* with the path-list separator of the host, of the paths of the libraries
\* required for the host and of the main_jar of each manifest, in some
\* iteration order of the manifests: no empty entry and no other entry,
\* also when a manifest contributes no library and no main_jar
C21_ClasspathContent ==
    launched.op = "start" =>
        \E order \in Orders(instance.manifests) :
            launched.classpath =
                JoinWith(ClassPathOf(instance, order, target),
                         IF target = "windows" THEN ";" ELSE ":")

\* the failing input of C21 is reached: the manifest of b contributes
\* nothing on this host and start was called
C21_EmptyManifest ==
    /\ launched.op = "start"
    /\ \E uid \in DOMAIN instance.manifests :
          ClassPathEntries(instance.manifests[uid], "mc/libraries", OS(target)) = <<>>
    /\ Cardinality(DOMAIN instance.manifests) = 2

(***************************************************************************)
(* The value types of the metadata (meta/manifest.rs, meta/request.rs,     *)
(* auth.rs): a value is drawn and the functions of its type are applied to *)
(* it.  eval.input is the value, eval.out what the last function returned. *)
(***************************************************************************)
\* cap on the number of rules of a library
MaxRules == 2

\* Vec<Rule>: struct Rule { action, os }, any action with any OS
RuleLists ==
    UNION {[1..n -> {Rule(action, os) : action \in {"allow", "disallow"},
                                        os \in Targets}] : n \in 0..MaxRules}

\* struct Library: natives with and without an entry for a host, with and
\* without the classifier it names
Libraries ==
    [name : {LibLwjgl.name},
     downloads : {[artifact |-> Download(<<19>>, "https://libs/lwjgl"),
                   classifiers |-> c] :
                     c \in {EmptyMap,
                            "natives-linux" :> Download(<<20>>, "https://libs/lwjgl-linux")}},
     natives : {EmptyMap, "linux" :> "natives-linux",
                "linux" :> "natives-linux" @@ "osx" :> "natives-osx"},
     rules : RuleLists]

Applied(op, out) == [op |-> op, input |-> eval.input, out |-> out]

\* lib.required_for(&platform)
RequiredFor ==
    /\ eval.input.type = "Library"
    /\ eval' = Applied("required_for",
                       required_for(eval.input.lib, eval.input.platform))

\* lib.select_for(&platform)
SelectFor ==
    /\ eval.input.type = "Library"
    /\ eval' = Applied("select_for", select_for(eval.input.lib, eval.input.platform))

\* lib.verify_at(at, &platform), the file of the library missing or present
VerifyAt ==
    /\ eval.input.type = "Library"
    /\ \E digest \in {None, Some(<<19>>), Some(<<20>>)} :
          eval' = Applied("verify_at",
                          verify_at(eval.input.lib, LibraryPath, eval.input.platform,
                                    Display(path_at_for(eval.input.lib, LibraryPath,
                                                        eval.input.platform))
                                      :> digest))

(***************************************************************************)
(* Hashes as text.  A string is the sequence of its characters.            *)
(***************************************************************************)
\* ring::digest::SHA1_OUTPUT_LEN
SHA1_OUTPUT_LEN == 20

\* ring::digest::SHA256_OUTPUT_LEN
SHA256_OUTPUT_LEN == 32

\* hex::decode: a string of even length, every character a digit in either
\* case, gives the bytes; any other string gives a FromHexError
decode(s) ==
    LET upper == <<"0","1","2","3","4","5","6","7","8","9","A","B","C","D","E","F">>
        \* the value of a digit, 16 for a character that is no digit
        val(c) ==
            IF \E v \in 1..16 : HexDigit[v] = c
            THEN (CHOOSE v \in 1..16 : HexDigit[v] = c) - 1
            ELSE IF \E v \in 1..16 : upper[v] = c
            THEN (CHOOSE v \in 1..16 : upper[v] = c) - 1
            ELSE 16
    IN  IF Len(s) % 2 = 1 \/ \E i \in 1..Len(s) : val(s[i]) = 16
        THEN [err |-> "FromHex", bytes |-> <<>>]
        ELSE [err |-> "Ok",
              bytes |-> [i \in 1..(Len(s) \div 2) |->
                            val(s[2 * i - 1]) * 16 + val(s[2 * i])]]

\* Sha1Sum::from_str (len 20) and Sha256Sum::from_str (len 32): [err, sum]
sum_from_str(s, len) ==
    IF decode(s).err # "Ok" THEN [err |-> decode(s).err, sum |-> <<>>]
    ELSE IF Len(decode(s).bytes) # len THEN [err |-> "LibraryInvalidHash", sum |-> <<>>]
    ELSE [err |-> "Ok", sum |-> decode(s).bytes]

\* Display of Sha1Sum and Sha256Sum: the characters of hex::encode(self.0)
sum_to_string(sum) ==
    [i \in 1..(2 * Len(sum)) |->
        IF i % 2 = 1 THEN HexDigit[(sum[(i + 1) \div 2] \div 16) + 1]
        ELSE HexDigit[(sum[i \div 2] % 16) + 1]]

\* the strings parsed as a hash of len bytes: two characters too short to
\* two too long, every character the same digit but one
HexStrings(len) ==
    {[i \in 1..n |-> IF i = pos THEN d ELSE c] :
        c \in {"0", "a"}, n \in (2 * len - 2)..(2 * len + 2), pos \in {1, 2 * len - 3},
        d \in {"0", "9", "a", "f", "A", "F", "g", "G", "-"}}

\* s.parse::<Sha1Sum>() and s.parse::<Sha256Sum>()
ParseSum ==
    /\ eval.input.type = "Hex"
    /\ eval' = Applied("from_str", sum_from_str(eval.input.s, eval.input.len))

\* sum.to_string() of the hash just parsed
SumToString ==
    /\ eval.input.type = "Hex"
    /\ eval.op = "from_str"
    /\ eval.out.err = "Ok"
    /\ eval' = Applied("to_string", sum_to_string(eval.out.sum))

\* the hashes that parse from HexStrings
Sums(len) ==
    {sum_from_str(s, len).sum :
        s \in {x \in HexStrings(len) : sum_from_str(x, len).err = "Ok"}}

\* enum DownloadRequest: one request per variant and parsed hash
Requests ==
    {new_meta_index(index_url)}
    \cup {new_package_index(BaseUrl, [uid |-> "a", sha256 |-> h]) :
             h \in Sums(SHA256_OUTPUT_LEN)}
    \cup {new_package_manifest(BaseUrl, "a", [version |-> "1", sha256 |-> h]) :
             h \in Sums(SHA256_OUTPUT_LEN)}
    \cup {[kind |-> "AssetIndex",
           info |-> AssetIndexInfo("1.18", h, "https://assets/1.18"),
           uid |-> "a", version |-> "1",
           path |-> Display(<<AssetsPath, "indexes", "1.18.json">>)] :
             h \in Sums(SHA1_OUTPUT_LEN)}
    \cup {new_library(Download(h, "https://libs/brigadier"),
                      path_at_for(LibBrigadier, LibraryPath, HostOS)) :
             h \in Sums(SHA1_OUTPUT_LEN)}
    \cup {AssetRequests(new, <<[asset |-> Asset(h)]>>, "a")[1] : h \in Sums(SHA1_OUTPUT_LEN)}

\* the accessors of a DownloadRequest
Classify ==
    /\ eval.input.type = "Request"
    /\ eval' = Applied("classify",
                       [is_file |-> is_file(eval.input.request),
                        has_hash |-> has_hash(eval.input.request),
                        hash_algo |-> get_hash_algo(eval.input.request),
                        path |-> get_path(eval.input.request),
                        hash |-> get_hash(eval.input.request),
                        hash_size |-> hash_size(eval.input.request)])

(***************************************************************************)
(* Library coordinates as text.  A string is a sequence of pieces: the     *)
(* separators ":" and "." and pieces of text without a separator.          *)
(***************************************************************************)
\* cap on the number of ':'-separated parts of a coordinate
MaxParts == 5

\* str::split: the parts between the occurrences of sep, at least one
RECURSIVE split(_, _)
split(s, sep) ==
    IF \A i \in 1..Len(s) : s[i] # sep THEN <<s>>
    ELSE LET at == CHOOSE i \in 1..Len(s) :
                       s[i] = sep /\ \A j \in 1..(i - 1) : s[j] # sep
         IN  <<SubSeq(s, 1, at - 1)>> \o split(SubSeq(s, at + 1, Len(s)), sep)

\* [String]::join
RECURSIVE join(_, _)
join(parts, sep) ==
    IF Len(parts) = 0 THEN <<>>
    ELSE IF Len(parts) = 1 THEN parts[1]
    ELSE parts[1] \o <<sep>> \o join(Tail(parts), sep)

\* FromStr for LibraryName: [err, name]
name_from_str(s) ==
    IF Len(split(s, ":")) < 3 THEN [err |-> "LibraryInvalidName", name |-> <<>>]
    ELSE [err |-> "Ok",
          name |-> [namespace |-> split(s, ":")[1],
                    name |-> split(s, ":")[2],
                    version |-> split(s, ":")[3],
                    extra_versions |-> SubSeq(split(s, ":"), 4, Len(split(s, ":")))]]

\* variant: the extra versions are written with '-' between them
name_to_string_dashed(name) ==
    IF name.extra_versions # <<>>
    THEN join(<<name.namespace, name.name, name.version,
                join(name.extra_versions, "-")>>, ":")
    ELSE join(<<name.namespace, name.name, name.version>>, ":")

\* Display for LibraryName
name_to_string(name) ==
    IF name.extra_versions # <<>>
    THEN join(<<name.namespace, name.name, name.version,
                join(name.extra_versions, ":")>>, ":")
    ELSE join(<<name.namespace, name.name, name.version>>, ":")

\* the LibraryName with its strings written out and its namespace split,
\* self.namespace.split('.'), as base_path_at reads it
Name_of(name) ==
    Name([i \in 1..Len(split(name.namespace, ".")) |->
             JoinWith(split(name.namespace, ".")[i], "")],
         JoinWith(name.name, ""), JoinWith(name.version, ""),
         [i \in 1..Len(name.extra_versions) |-> JoinWith(name.extra_versions[i], "")])

\* the strings parsed as a coordinate: up to MaxParts parts with ':'
\* between them, a part empty or not
Coordinates ==
    {join(parts, ":") :
        parts \in UNION {[1..n -> {<<>>, <<"com", ".", "mojang">>, <<"minecraft">>,
                                   <<"1", ".", "18", ".", "1">>, <<"client">>}] :
                            n \in 1..MaxParts}}

\* s.parse::<LibraryName>()
ParseName ==
    /\ eval.input.type = "Coordinate"
    /\ eval' = Applied("from_str", name_from_str(eval.input.s))

\* name.to_string() of the coordinate just parsed
NameToString ==
    /\ eval.input.type = "Coordinate"
    /\ eval.op = "from_str"
    /\ eval.out.err = "Ok"
    /\ eval' = Applied("to_string", name_to_string(eval.out.name))

\* name.path_at(root) and name.path_at_natives(root, natives) of the
\* coordinate just parsed
PathAt ==
    /\ eval.input.type = "Coordinate"
    /\ eval.op = "from_str"
    /\ eval.out.err = "Ok"
    /\ \E root \in {"", "lib"} :
          eval' = Applied("path_at",
                          [root |-> root,
                           path |-> path_at(Name_of(eval.out.name), root),
                           natives |-> path_at_natives(Name_of(eval.out.name), root,
                                                       "natives-linux")])

\* auth.get_username(), auth.get_token(), auth.get_uuid()
Identity ==
    /\ eval.input.type = "Auth"
    /\ eval' = Applied("identity",
                       [username |-> get_username(eval.input.auth),
                        token |-> get_token(eval.input.auth),
                        uuid |-> get_uuid(eval.input.auth)])

InitTypes ==
    /\ world \in {w \in FreeWorlds : w.art = "bare" /\ Len(w.registry) = 1}
    /\ mm = new
    /\ verified = {}
    /\ once_verified = {}
    /\ files = <<>>
    /\ last = NoCall
    /\ rounds = 0
    /\ search_ = ErrResult("Ok")
    /\ next = 0
    /\ pc = "free"
    /\ disk = <<>>
    /\ fetch = NoFetch
    /\ JavaIdle
    /\ \/ \E lib \in Libraries : \E os \in Targets :
             eval = [op |-> "none",
                     input |-> [type |-> "Library", lib |-> lib, platform |-> OS(os)],
                     out |-> <<>>]
       \/ \E request \in Requests :
             eval = [op |-> "none", input |-> [type |-> "Request", request |-> request],
                     out |-> <<>>]
       \/ \E s \in Coordinates :
             eval = [op |-> "none", input |-> [type |-> "Coordinate", s |-> s],
                     out |-> <<>>]
       \/ \E a \in Auths :
             eval = [op |-> "none", input |-> [type |-> "Auth", auth |-> a],
                     out |-> <<>>]
       \/ \E len \in {SHA1_OUTPUT_LEN, SHA256_OUTPUT_LEN} : \E s \in HexStrings(len) :
             eval = [op |-> "none", input |-> [type |-> "Hex", len |-> len, s |-> s],
                     out |-> <<>>]

NextTypes ==
    /\ \/ RequiredFor
       \/ SelectFor
       \/ VerifyAt
       \/ Classify
       \/ ParseName
       \/ NameToString
       \/ PathAt
       \/ Identity
       \/ ParseSum
       \/ SumToString
    /\ UNCHANGED <<world, mm, verified, files, last, pc, search_, next, rounds,
                   once_verified, fetch_vars, java_vars>>

SpecTypes == InitTypes /\ [][NextTypes]_vars

(***************************************************************************)
(* C22  Rule monotonicity                                                  *)
(***************************************************************************)
\* the rule list with d inserted before position i
Inserted(rules, i, d) ==
    SubSeq(rules, 1, i - 1) \o <<d>> \o SubSeq(rules, i, Len(rules))

\* C22 as stated: required_for gives the same result for the rules of a
\* library, the empty list included, and for these rules with a disallow
\* rule inserted at any position, on every host; without rules the result
\* is true on every host
C22_Original ==
    eval.op = "required_for" =>
        /\ \A os \in Targets : \A i \in 1..(Len(eval.input.lib.rules) + 1) :
              required_for([eval.input.lib EXCEPT
                               !.rules = Inserted(@, i, Rule("disallow", os))],
                           eval.input.platform) = eval.out
        /\ eval.input.lib.rules = <<>> => eval.out = TRUE

\* C22: required_for gives the same result for a non-empty rule list and
\* for this list with a disallow rule inserted at any position, on every
\* host; without rules the result is true on every host, and false on every
\* host once a disallow rule is added to the empty list
C22_RuleMonotonicity ==
    eval.op = "required_for" =>
        /\ eval.input.lib.rules # <<>> =>
              \A os \in Targets : \A i \in 1..(Len(eval.input.lib.rules) + 1) :
                  required_for([eval.input.lib EXCEPT
                                   !.rules = Inserted(@, i, Rule("disallow", os))],
                               eval.input.platform) = eval.out
        /\ eval.input.lib.rules = <<>> =>
              /\ eval.out = TRUE
              /\ \A os \in Targets :
                    required_for([eval.input.lib EXCEPT
                                     !.rules = <<Rule("disallow", os)>>],
                                 eval.input.platform) = FALSE

\* required_for was applied to rules that allow the host, a disallow rule
\* for the host can be inserted after the allow rule, and to no rules
C22_Witness ==
    /\ eval.op = "required_for"
    /\ eval.input.lib.rules = <<Rule("allow", "linux"), Rule("allow", "osx")>>
    /\ eval.input.platform = OS("linux")
    /\ eval.out = TRUE

(***************************************************************************)
(* C23  Artifact selection                                                 *)
(***************************************************************************)
\* C23: select_for returns the classifier that natives names for the host
\* when natives has an entry for the host, and the main artifact otherwise,
\* whatever the rules of the library are; when the named classifier is
\* absent nothing is selected and verify_at fails with LibraryNotSupported
C23_ArtifactSelection ==
    LET lib == eval.input.lib
        host == eval.input.platform.name
        absent == /\ host \in DOMAIN lib.natives
                  /\ lib.natives[host] \notin DOMAIN lib.downloads.classifiers
    IN  /\ eval.op = "select_for" =>
              /\ host \notin DOMAIN lib.natives => eval.out = Some(lib.downloads.artifact)
              /\ host \in DOMAIN lib.natives /\ ~absent =>
                     eval.out = Some(lib.downloads.classifiers[lib.natives[host]])
              /\ absent => eval.out = None
              /\ \A rules \in RuleLists :
                     select_for([lib EXCEPT !.rules = rules], eval.input.platform)
                       = eval.out
        /\ eval.op = "verify_at" /\ absent => eval.out = "LibraryNotSupported"

\* a classifier was selected
C23_Witness ==
    /\ eval.op = "select_for"
    /\ eval.input.platform = OS("linux")
    /\ eval.out = Some(Download(<<20>>, "https://libs/lwjgl-linux"))

\* verify_at met a natives entry that names an absent classifier
C23_WitnessNotSupported ==
    /\ eval.op = "verify_at"
    /\ eval.input.platform = OS("osx")
    /\ "osx" \in DOMAIN eval.input.lib.natives
    /\ eval.out = "LibraryNotSupported"

(***************************************************************************)
(* C24  LibraryNotSupported policy                                         *)
(***************************************************************************)
\* the libraries of manifest x that the rules exclude for the host and that
\* have no download for it
ExcludedUnselectable(x) ==
    {l \in Range(x.libraries) : ~required_for(l, HostOS) /\ ~IsSome(select_for(l, HostOS))}

C24_WitnessMainJar ==
    /\ last.op = "continue_search"
    /\ last.err = "LibraryNotSupported"
    /\ \E x \in LoadedManifests(mm) :
          \E l \in Range(x.main_jar) : ~IsSome(select_for(l, HostOS))

(***************************************************************************)
(* C28  Hash parse strictness                                              *)
(***************************************************************************)
LowerHex == {HexDigit[v] : v \in 1..16}

\* C28: parsing a string as Sha1Sum (N = 20) or Sha256Sum (N = 32) succeeds
\* exactly when the string has 2 * N characters and each of them is one of
\* 0-9a-f; every other string is rejected with the invalid-hash error; and
\* a parsed hash is formatted as lower-case hex
C28_HashParseStrictness ==
    /\ (eval.input.type = "Hex" /\ eval.op = "from_str") =>
          /\ eval.out.err = "Ok" <=>
                /\ Len(eval.input.s) = 2 * eval.input.len
                /\ \A i \in 1..Len(eval.input.s) : eval.input.s[i] \in LowerHex
          /\ eval.out.err # "Ok" => eval.out.err = "LibraryInvalidHash"
    /\ (eval.input.type = "Hex" /\ eval.op = "to_string") =>
          /\ Len(eval.out) = 2 * eval.input.len
          /\ \A i \in 1..Len(eval.out) : eval.out[i] \in LowerHex

\* the part of C28 that holds: a string of another length is rejected, a
\* string that parses has 2 * N characters, a parsed hash has N bytes and
\* is formatted as 2 * N lower-case digits, the string itself when it was
\* in lower case
C28_LengthAndFormat ==
    /\ (eval.input.type = "Hex" /\ eval.op = "from_str") =>
          /\ Len(eval.input.s) # 2 * eval.input.len => eval.out.err # "Ok"
          /\ eval.out.err = "Ok" => Len(eval.out.sum) = eval.input.len
          /\ (/\ Len(eval.input.s) = 2 * eval.input.len
              /\ \A i \in 1..Len(eval.input.s) : eval.input.s[i] \in LowerHex) =>
                 eval.out.err = "Ok"
    /\ (eval.input.type = "Hex" /\ eval.op = "to_string") =>
          /\ Len(eval.out) = 2 * eval.input.len
          /\ \A i \in 1..Len(eval.out) : eval.out[i] \in LowerHex
          /\ (\A i \in 1..Len(eval.input.s) : eval.input.s[i] \in LowerHex) =>
                 eval.out = eval.input.s
          /\ JoinWith(eval.out, "") = HexEncode(decode(eval.input.s).bytes)

\* a string of 2 * N digits with an upper-case digit was parsed
C28_UpperCaseAccepted ==
    /\ eval.input.type = "Hex"
    /\ eval.op = "from_str"
    /\ eval.out.err = "Ok"
    /\ eval.input.s[1] = "A"

\* a string of 2 * N characters with a character that is no digit was
\* rejected with the error of hex::decode
C28_NoDigitFromHex ==
    /\ eval.input.type = "Hex"
    /\ eval.op = "from_str"
    /\ Len(eval.input.s) = 2 * eval.input.len
    /\ eval.input.s[1] = "g"
    /\ eval.out.err = "FromHex"

(***************************************************************************)
(* C25  Request classification                                             *)
(***************************************************************************)
\* C25: is_file() is true exactly for Library and Asset; has_hash() is false
\* exactly for MetaIndex; the hash algorithm is SHA-256 for Index and
\* Manifest, SHA-1 for Library, AssetIndex and Asset, none for MetaIndex;
\* get_path() is present exactly for Library and Asset; and get_hash() has
\* hash_size() bytes
C25_RequestClassification ==
    (eval.input.type = "Request" /\ eval.op = "classify") =>
        LET kind == eval.input.request.kind
        IN  /\ eval.out.is_file <=> kind \in {"Library", "Asset"}
            /\ ~eval.out.has_hash <=> kind = "MetaIndex"
            /\ kind \in {"Index", "Manifest"} => eval.out.hash_algo = Some("SHA256")
            /\ kind \in {"Library", "AssetIndex", "Asset"} =>
                  eval.out.hash_algo = Some("SHA1")
            /\ kind = "MetaIndex" => eval.out.hash_algo = None
            /\ IsSome(eval.out.path) <=> kind \in {"Library", "Asset"}
            /\ Len(eval.out.hash) = eval.out.hash_size

\* the accessors were applied to an AssetIndex request: no file, a SHA-1 of
\* 20 bytes
C25_Witness ==
    /\ eval.input.type = "Request"
    /\ eval.op = "classify"
    /\ eval.input.request.kind = "AssetIndex"
    /\ ~eval.out.is_file
    /\ Len(eval.out.hash) = 20

(***************************************************************************)
(* C26  Coordinate round-trip                                              *)
(***************************************************************************)
\* the number of ':' in a string, plus one
Parts(s) == Cardinality({i \in 1..Len(s) : s[i] = ":"}) + 1

\* C26: parsing a coordinate succeeds for a string with at least 3 parts
\* between colons, which become namespace, name, version and, in order, the
\* extra versions, and fails with LibraryInvalidName for fewer; the parsed
\* coordinate is written as the string it was parsed from
C26_CoordinateRoundTrip ==
    /\ (eval.input.type = "Coordinate" /\ eval.op = "from_str") =>
          /\ Parts(eval.input.s) >= 3 =>
                /\ eval.out.err = "Ok"
                /\ 3 + Len(eval.out.name.extra_versions) = Parts(eval.input.s)
                /\ \A part \in {eval.out.name.namespace, eval.out.name.name,
                                 eval.out.name.version}
                                \cup Range(eval.out.name.extra_versions) :
                       ":" \notin Range(part)
                /\ eval.input.s
                     = eval.out.name.namespace \o <<":">> \o eval.out.name.name
                         \o <<":">> \o eval.out.name.version
                         \o IF eval.out.name.extra_versions = <<>> THEN <<>>
                            ELSE <<":">> \o join(eval.out.name.extra_versions, ":")
          /\ Parts(eval.input.s) < 3 => eval.out.err = "LibraryInvalidName"
    /\ (eval.input.type = "Coordinate" /\ eval.op = "to_string") =>
          eval.out = eval.input.s

\* a coordinate with two extra versions, one of them empty, was parsed and
\* written
C26_Witness ==
    /\ eval.input.type = "Coordinate"
    /\ eval.op = "to_string"
    /\ name_from_str(eval.input.s).name.extra_versions = <<<<"client">>, <<>>>>
    /\ eval.out = eval.input.s

(***************************************************************************)
(* C27  Coordinate to path                                                 *)
(***************************************************************************)
\* the path of the components that are not empty
PathOf(components) == JoinWith(SelectSeq(components, LAMBDA c : c # ""), "/")

\* C27: path_at(root) of a parsed coordinate is root, each '.'-separated
\* component of the namespace, the name, the version and the file
\* <name>-<version>[-<extras joined by '-'>].jar; path_at_natives(root, c)
\* is the same with -<c> before .jar; com.mojang:minecraft:1.18.1:client at
\* root "" gives com/mojang/minecraft/1.18.1/minecraft-1.18.1-client.jar
C27_CoordinateToPath ==
    (eval.input.type = "Coordinate" /\ eval.op = "path_at") =>
        LET parts == split(eval.input.s, ":")
            text(part) == JoinWith(part, "")
            namespace == split(parts[1], ".")
            stem == text(parts[2]) \o "-" \o text(parts[3])
                      \o IF Len(parts) = 3 THEN ""
                         ELSE "-" \o JoinWith([i \in 1..(Len(parts) - 3) |->
                                                  text(parts[i + 3])], "-")
            dir == <<eval.out.root>>
                     \o [i \in 1..Len(namespace) |-> text(namespace[i])]
                     \o <<text(parts[2]), text(parts[3])>>
        IN  /\ Display(eval.out.path) = PathOf(Append(dir, stem \o ".jar"))
            /\ Display(eval.out.natives)
                 = PathOf(Append(dir, stem \o "-" \o "natives-linux" \o ".jar"))
            /\ (/\ eval.input.s = <<"com", ".", "mojang", ":", "minecraft", ":",
                                     "1", ".", "18", ".", "1", ":", "client">>
                /\ eval.out.root = "") =>
                   Display(eval.out.path)
                     = "com/mojang/minecraft/1.18.1/minecraft-1.18.1-client.jar"

\* the path of com.mojang:minecraft:1.18.1:client at root "" was built
C27_Witness ==
    /\ eval.input.type = "Coordinate"
    /\ eval.op = "path_at"
    /\ eval.input.s = <<"com", ".", "mojang", ":", "minecraft", ":",
                        "1", ".", "18", ".", "1", ":", "client">>
    /\ eval.out.root = ""
    /\ Display(eval.out.path) = "com/mojang/minecraft/1.18.1/minecraft-1.18.1-client.jar"

(***************************************************************************)
(* C29  Identity accessors                                                 *)
(***************************************************************************)
\* C29: for every kind of identity (offline, Mojang, Microsoft)
\* get_username() returns the username of the identity, without failing;
\* get_token() and get_uuid() are absent for an offline identity and are
\* the stored token and uuid for an online one
C29_IdentityAccessors ==
    (eval.input.type = "Auth" /\ eval.op = "identity") =>
        /\ eval.out.username = Some(eval.input.auth.username)
        /\ eval.input.auth.kind = "Offline" =>
              eval.out.token = None /\ eval.out.uuid = None
        /\ eval.input.auth.kind # "Offline" =>
              /\ eval.out.token = Some(eval.input.auth.token)
              /\ eval.out.uuid = Some(eval.input.auth.uuid)

\* the part of C29 that holds: the same, for get_username() of an offline
\* or Mojang identity
C29_ExceptMicrosoft ==
    (eval.input.type = "Auth" /\ eval.op = "identity") =>
        /\ eval.input.auth.kind # "MSFT" =>
              eval.out.username = Some(eval.input.auth.username)
        /\ eval.input.auth.kind = "Offline" =>
              eval.out.token = None /\ eval.out.uuid = None
        /\ eval.input.auth.kind # "Offline" =>
              /\ eval.out.token = Some(eval.input.auth.token)
              /\ eval.out.uuid = Some(eval.input.auth.uuid)

(***************************************************************************)
(* C30  Order independence within one result                               *)
(***************************************************************************)
\* the resolver and the cache after the requests reqs were fulfilled and
\* loaded in the order given, as the loop of download_meta does it:
\* [mm, verified, files, err]
RECURSIVE Fulfilled(_, _, _)
Fulfilled(st, reqs, order) ==
    IF order = <<>> \/ st.err # "Ok" THEN st
    ELSE LET r == reqs[Head(order)]
             Step(l) ==
                 Fulfilled([mm |-> l.mm, verified |-> l.verified, files |-> st.files,
                            err |-> l.err], reqs, Tail(order))
         IN  IF is_file(r)
             THEN Fulfilled([st EXCEPT !.files[r.path] = Some(get_hash(r))],
                            reqs, Tail(order))
             ELSE Step(DriverLoad(st.mm, st.verified, world, r))

\* the longest request list whose orders are all tried one by one
MaxPermuted == 2

\* C30: the requests that one continue_search() returned may be fulfilled
\* and loaded in any order: every order leaves the resolver (registry,
\* manifests, wants, verified flags) and the cache in the same state, and
\* the next continue_search() returns the same result.  For a list of up to
\* MaxPermuted requests every permutation is compared with the order of
\* the list.  For a list of any length: whichever request r of a set A of
\* the requests comes last, after the others of A in the order of the
\* list, the state is the one that A in the order of the list leaves; by
\* induction on the size of A every order of A leaves that state.
C30_OrderIndependence ==
    (pc = "fulfil" /\ next = 1) =>
        LET reqs == search_.requests
            before == [mm |-> mm, verified |-> verified, files |-> files, err |-> "Ok"]
            Listed(A) == SelectSeq([i \in 1..Len(reqs) |-> i], LAMBDA i : i \in A)
            \* a: the state the order of the list leaves, res: what the next
            \* continue_search() returns in it
            InOrder(a, res) ==
                \A order \in Orders(reqs) :
                    LET b == Fulfilled(before, reqs, order)
                    IN  /\ b = a
                        /\ b.err = "Ok" =>
                              continue_search(b.mm, b.verified, b.files).res = res
            Compared(a) ==
                InOrder(a, continue_search(a.mm, a.verified, a.files).res)
        IN  /\ Len(reqs) <= MaxPermuted =>
                  Compared(Fulfilled(before, reqs, [i \in 1..Len(reqs) |-> i]))
            /\ \A A \in SUBSET (1..Len(reqs)) : \A r \in A :
                  Fulfilled(Fulfilled(before, reqs, Listed(A \ {r})), reqs, <<r>>)
                    = Fulfilled(before, reqs, Listed(A))

\* continue_search() returned requests of two package indexes, or a library
\* and an asset index
C30_Witness ==
    /\ pc = "fulfil"
    /\ next = 1
    /\ \E i, j \in 1..Len(search_.requests) :
          /\ search_.requests[i].kind = "Index"
          /\ search_.requests[j].kind = "Index"
          /\ search_.requests[i].uid # search_.requests[j].uid

\* continue_search() returned requests of files and of metadata together
C30_WitnessMixed ==
    /\ pc = "fulfil"
    /\ next = 1
    /\ \E i, j \in 1..Len(search_.requests) :
          /\ is_file(search_.requests[i])
          /\ ~is_file(search_.requests[j])


\* the requires lists that continue_search() merges when it resolves want w:
\* the list of the version entry and, once loaded, that of the manifest
MergedLists(m, w) ==
    LET p == get_uid(Unwrap(m.index), w.uid)
        package_index == Unwrap(m.index).packages[p]
        v == find_version(Unwrap(package_index.index), w.version)
        version == Unwrap(package_index.index).versions[v]
    IN  IF p = 0 \/ ~IsSome(package_index.index) \/ v = 0 THEN {}
        ELSE {version.requires}
             \cup {Unwrap(x).requires : x \in {y \in {version.manifest} : IsSome(y)}}

(***************************************************************************)
(* C31: when a continue_search() has returned Ok with the registry loaded, *)
(* every requirement of the requires lists of every entry of wants (the    *)
(* version entry's list and, once loaded, the manifest's) has its UID in   *)
(* wants or extra_wants, whatever the other requirements of the list and   *)
(* its position in it; an entry of extra_wants carries the suggested       *)
(* version of a requirement that names its UID.                            *)
(***************************************************************************)
C31_RequirementMerge ==
    (last.op = "continue_search" /\ last.err = "Ok" /\ IsSome(mm.index)) =>
        \A k \in 1..Len(mm.wants) :
            \A reqs \in MergedLists(mm, mm.wants[k]) :
                \A i \in 1..Len(reqs) :
                    \E x \in Range(mm.wants) \cup Range(mm.extra_wants) :
                        x.uid = reqs[i].uid

\* the part of the merge that holds: the first requirement of a list is
\* merged, and every entry of extra_wants is a requirement turned into a want
C31_FirstMerged ==
    (last.op = "continue_search" /\ last.err = "Ok" /\ IsSome(mm.index)) =>
        /\ \A k \in 1..Len(mm.wants) :
              \A reqs \in MergedLists(mm, mm.wants[k]) :
                  reqs # <<>> =>
                      \E x \in Range(mm.wants) \cup Range(mm.extra_wants) :
                          x.uid = reqs[1].uid
        /\ \A x \in Range(mm.extra_wants) :
              \E r \in {ReqA1, ReqB1, ReqC1, ReqC2} : x = WantsFrom(r)

\* a requirement listed after an already wanted UID was dropped
C31_Dropped ==
    /\ last.op = "continue_search" /\ last.err = "Ok" /\ IsSome(mm.index)
    /\ \E k \in 1..Len(mm.wants) :
          \E reqs \in MergedLists(mm, mm.wants[k]) :
              \E i \in 2..Len(reqs) :
                  \A x \in Range(mm.wants) \cup Range(mm.extra_wants) :
                      x.uid # reqs[i].uid


\* no two requests of the list ask for the same package index or for the
\* same manifest
NoTwice(requests) ==
    \A i, j \in 1..Len(requests) :
        i < j =>
            /\ ~(/\ requests[i].kind = "Index" /\ requests[j].kind = "Index"
                 /\ requests[i].uid = requests[j].uid)
            /\ ~(/\ requests[i].kind = "Manifest" /\ requests[j].kind = "Manifest"
                 /\ requests[i].uid = requests[j].uid
                 /\ requests[i].version = requests[j].version)

\* extra_wants holds no UID twice and no UID of wants
ExtraWantsDistinct(m) ==
    /\ \A i, j \in 1..Len(m.extra_wants) :
          i < j => m.extra_wants[i].uid # m.extra_wants[j].uid
    /\ \A i \in 1..Len(m.extra_wants) : \A k \in 1..Len(m.wants) :
          m.extra_wants[i].uid # m.wants[k].uid

(***************************************************************************)
(* C32: the requests returned by a continue_search() never hold two Index  *)
(* requests for the same UID nor two Manifest requests for the same (UID,  *)
(* version), and extra_wants never holds two entries with the same UID nor *)
(* an entry whose UID is also in wants.                                    *)
(***************************************************************************)
C32_DedupByUid ==
    /\ (last.op = "continue_search" /\ last.err = "Ok") => NoTwice(last.requests)
    /\ ExtraWantsDistinct(mm)

\* the same for a driver whose wants name every UID once: only the
\* requirements can repeat a UID
C32_DistinctWants ==
    (/\ last.op = "continue_search" /\ last.err = "Ok"
     /\ \A i, j \in 1..Len(mm.wants) : i < j => mm.wants[i].uid # mm.wants[j].uid)
        => NoTwice(last.requests) /\ ExtraWantsDistinct(mm)


\* a natives classifier is the download selected for library l on the host
ClassifierSelected(l) ==
    /\ HostOS.name \in DOMAIN l.natives
    /\ l.natives[HostOS.name] \in DOMAIN l.downloads.classifiers

\* the destination of library l on the host
Destination(l) ==
    Display(IF ClassifierSelected(l)
            THEN path_at_natives(l.name, LibraryPath, l.natives[HostOS.name])
            ELSE path_at(l.name, LibraryPath))

\* the file of library l is missing or has a SHA-1 other than the selected
\* download's
FileFails(fs, l) ==
    \/ Destination(l) \notin DOMAIN fs
    \/ fs[Destination(l)] # Some(Unwrap(select_for(l, HostOS)).sha1)

\* the Library requests planned for the manifests ms with the flags v and
\* the files fs
Planned(ms, v, fs) ==
    LET Request(l) ==
            [kind |-> "Library", download |-> Unwrap(select_for(l, HostOS)),
             path |-> Destination(l)]
    IN  UNION {
          {Request(m.libraries[i]) :
              i \in {j \in 1..Len(m.libraries) :
                       /\ required_for(m.libraries[j], HostOS)
                       /\ Cell(m.uid, m.version, "lib", j) \notin v
                       /\ FileFails(fs, m.libraries[j])}}
          \cup {Request(l) :
              l \in {x \in Range(m.main_jar) :
                       /\ Cell(m.uid, m.version, "main_jar", 0) \notin v
                       /\ FileFails(fs, x)}} : m \in ms}

(***************************************************************************)
(* C33: a continue_search() that succeeds with the registry loaded emits a *)
(* Library request for exactly the libraries of the loaded manifests of    *)
(* its wants that are required for the host, not yet verified and whose    *)
(* file is missing or has another SHA-1, and for the main_jar under the    *)
(* same file test; the request carries the download selected for the host  *)
(* and the host's destination path, with the classifier suffix exactly     *)
(* when a natives classifier is selected.                                  *)
(***************************************************************************)
C33_LibraryPlanning ==
    LET r == continue_search(mm, verified, files)
        emitted == {q \in Range(r.res.requests) : q.kind = "Library"}
    IN  (r.res.err = "Ok" /\ IsSome(mm.index)) =>
            /\ Planned(WantedManifests(mm), verified, files) \subseteq emitted
            /\ emitted \subseteq Planned(WantedManifests(r.mm), verified, files)

\* a call planned the classifier jar of a native library while the main_jar,
\* already verified, was left out
C33_Witness ==
    /\ last.op = "continue_search" /\ last.err = "Ok"
    /\ \E q \in Range(last.requests) :
          /\ q.kind = "Library"
          /\ q.download = LibLwjgl.downloads.classifiers["natives-linux"]
    /\ \E m \in WantedManifests(mm) :
          /\ IsSome(m.main_jar)
          /\ Cell(m.uid, m.version, "main_jar", 0) \in verified
          /\ \A q \in Range(last.requests) :
                q.kind = "Library" => q.path # Destination(Unwrap(m.main_jar))

\* a call planned nothing for a library that is not required for the host
C33_WitnessExcluded ==
    /\ last.op = "continue_search" /\ last.err = "Ok"
    /\ \E q \in Range(last.requests) : q.kind = "Library"
    /\ \E m \in WantedManifests(mm) : \E l \in Range(m.libraries) :
          /\ ~required_for(l, HostOS)
          /\ FileFails(files, l)


\* the server that asset requests are addressed to
AssetsBase(m) ==
    IF m.assets_url = None THEN "https://resources.download.minecraft.net"
    ELSE Unwrap(m.assets_url)

\* the AssetIndex request for manifest x
AssetIndexRequest(x) ==
    [kind |-> "AssetIndex", info |-> Unwrap(x.asset_index),
     uid |-> x.uid, version |-> x.version,
     path |-> AssetsPath \o "/indexes/" \o Unwrap(x.asset_index).id \o ".json"]

\* the Asset request for asset a of manifest x
AssetRequest(m, x, a) ==
    [kind |-> "Asset",
     url |-> AssetsBase(m) \o "/" \o HexByte(a.hash[1]) \o "/" \o HexEncode(a.hash),
     path |-> AssetsPath \o "/objects/" \o HexByte(a.hash[1]) \o "/" \o HexEncode(a.hash),
     asset |-> a, uid |-> x.uid]

\* object i of the cached asset index of manifest x is not yet verified and
\* its file is missing or corrupt
AssetFails(x, i) ==
    LET a == Unwrap(Unwrap(x.asset_index).cache).objects[i].asset
    IN  /\ Cell(x.uid, x.version, "asset", i) \notin verified
        /\ ~AssetFileMatches(a)

\* the requests of list reqs that belong to the assets of manifest x
AssetPlan(reqs, x) ==
    SelectSeq(reqs, LAMBDA q :
        \/ q.kind = "AssetIndex" /\ q.uid = x.uid /\ q.version = x.version
        \/ q.kind = "Asset" /\ q.uid = x.uid)

\* what the two phases ask for, for manifest x held by resolver m
TwoPhase(m, x) ==
    IF ~IsSome(Unwrap(x.asset_index).cache)
    THEN <<AssetIndexRequest(x)>>
    ELSE LET objects == Unwrap(Unwrap(x.asset_index).cache).objects
             failing == SelectSeq([i \in 1..Len(objects) |-> i],
                                  LAMBDA i : AssetFails(x, i))
         IN  [k \in 1..Len(failing) |-> AssetRequest(m, x, objects[failing[k]].asset)]

(***************************************************************************)
(* C34: for a loaded manifest with an asset_index, a continue_search()     *)
(* that succeeds emits, while the cache is absent, exactly one AssetIndex  *)
(* request (destination <assets_root>/indexes/<id>.json, hash              *)
(* asset_index.sha1) and no Asset request for the manifest; with the cache *)
(* present it emits no AssetIndex request and one Asset request per asset  *)
(* that is missing or corrupt, at <assets_root>/objects/<xx>/<hex> with    *)
(* URL <assets_base>/<xx>/<hex>, assets_base being the value given to      *)
(* set_assets_url or else the default server.                              *)
(***************************************************************************)
C34_AssetPlanning ==
    LET r == continue_search(mm, verified, files)
    IN  (r.res.err = "Ok" /\ IsSome(mm.index)) =>
            \A x \in {y \in WantedManifests(mm) : IsSome(y.asset_index)} :
                /\ AssetPlan(r.res.requests, x) = TwoPhase(mm, x)
                /\ \A q \in Range(AssetPlan(r.res.requests, x)) :
                      q.kind = "AssetIndex" => get_hash(q) = Unwrap(x.asset_index).sha1

\* the same, counting the requests once per entry of wants and extra_wants
\* that names the manifest
C34_PerWant ==
    LET r == continue_search(mm, verified, files)
        Named(x) == {k \in 1..Len(mm.wants) :
                        mm.wants[k].uid = x.uid /\ mm.wants[k].version = x.version}
        NamedExtra(x) == {k \in 1..Len(mm.extra_wants) :
                        /\ mm.extra_wants[k].uid = x.uid
                        /\ mm.extra_wants[k].version = x.version}
        RECURSIVE Times(_, _)
        Times(list, n) == IF n = 0 THEN <<>> ELSE list \o Times(list, n - 1)
    IN  (r.res.err = "Ok" /\ IsSome(mm.index)) =>
            \A x \in {y \in WantedManifests(mm) : IsSome(y.asset_index)} :
                AssetPlan(r.res.requests, x)
                  = Times(TwoPhase(mm, x),
                          Cardinality(Named(x)) + Cardinality(NamedExtra(x)))

\* the second phase, with the asset server replaced
C34_SecondPhase ==
    /\ last.op = "continue_search" /\ last.err = "Ok"
    /\ IsSome(mm.assets_url)
    /\ \E q \in Range(last.requests) : q.kind = "Asset"
    /\ Len(mm.wants) = 1

\* one call asked twice for the asset index of one manifest
C34_AskedTwice ==
    /\ last.op = "continue_search" /\ last.err = "Ok"
    /\ \E i, j \in 1..Len(last.requests) :
          /\ i < j
          /\ last.requests[i].kind = "AssetIndex"
          /\ last.requests[i] = last.requests[j]


(***************************************************************************)
(* C35: required_for(host) is true when rules is empty; otherwise it is    *)
(* true exactly when some allow rule names the host (the scan sets allow   *)
(* from an allow rule only while allow is false, so a later allow rule for *)
(* another OS does not withdraw it); a library with rules [allow osx] is   *)
(* not required on linux and is required on osx.                           *)
(***************************************************************************)
C35_RequiredForPlatform ==
    eval.op = "required_for" =>
        LET rules == eval.input.lib.rules
            host == eval.input.platform
        IN  /\ rules = <<>> => eval.out = TRUE
            /\ rules # <<>> =>
                  eval.out = (\E i \in 1..Len(rules) :
                                 /\ rules[i].action = "allow"
                                 /\ rules[i].os.name = host.name)
            /\ rules = <<Rule("allow", "osx")>> =>
                  /\ host.name = "linux" => eval.out = FALSE
                  /\ host.name = "osx" => eval.out = TRUE

\* required_for was applied on the host to rules whose first allow rule
\* names the host and whose last one names another OS
C35_Witness ==
    /\ eval.op = "required_for"
    /\ eval.input.lib.rules = <<Rule("allow", "linux"), Rule("allow", "windows")>>
    /\ eval.input.platform = OS("linux")
    /\ eval.out = TRUE

\* the example of the claim: [allow osx] on linux
C35_WitnessExample ==
    /\ eval.op = "required_for"
    /\ eval.input.lib.rules = <<Rule("allow", "osx")>>
    /\ eval.input.platform = OS("linux")
    /\ eval.out = FALSE


(***************************************************************************)
(* C36: continue_search() on a resolver without wants (no search() yet)    *)
(* fails with MetaNotFound, emits no request and leaves the resolver as it *)
(* was, with the registry index loaded or not.                             *)
(***************************************************************************)
C36_NoWants ==
    mm.wants = <<>> =>
        LET r == continue_search(mm, verified, files)
        IN  /\ r.res.err = "MetaNotFound"
            /\ r.res.requests = <<>>
            /\ r.mm = mm
            /\ r.verified = verified

\* continue_search() was called without wants and with the registry loaded
C36_Witness ==
    /\ last.op = "continue_search"
    /\ last.err = "MetaNotFound"
    /\ mm.wants = <<>>
    /\ IsSome(mm.index)

\* the same with nothing loaded
C36_WitnessUnloaded ==
    /\ last.op = "continue_search"
    /\ last.err = "MetaNotFound"
    /\ mm.wants = <<>>
    /\ ~IsSome(mm.index)


\* the requirements of world w form a cycle: a requires b and b requires a
Cyclic(w) ==
    /\ \E r \in Range(w.reqV.a) \cup Range(w.reqM.a) : r.uid = "b"
    /\ \E r \in Range(w.reqV.b) \cup Range(w.reqM.b) : r.uid = "a"

\* how many requirements the requires lists reachable from the wants hold
ReachableRequirements ==
    LET RECURSIVE Sum(_)
        Sum(xs) ==
            IF xs = {} THEN 0
            ELSE LET x == CHOOSE y \in xs : TRUE
                 IN  Len(VersionRequires(world, x.uid, x.version))
                       + Len(ManifestRequires(world, x.uid, x.version))
                       + Sum(xs \ {x})
    IN  Sum({x \in Closure(world, Range(mm.wants)) : Exists(world, x)})

(***************************************************************************)
(* C37: with requirements that form a cycle (a requires b, b requires a)   *)
(* the resolve loop does not diverge: extra_wants holds only requirements  *)
(* reachable from the wants, none for a UID of wants and no more of them   *)
(* than the reachable requires lists hold, the loop stays below the cap of *)
(* MaxRounds calls and always has a next step until it returns, and, when  *)
(* every wanted UID/version exists and has its artifacts for the host, it  *)
(* returns with an empty request list.                                     *)
(***************************************************************************)
C37_CyclicRequirements ==
    Cyclic(world) =>
        /\ Range(mm.extra_wants) \subseteq Closure(world, Range(mm.wants))
        /\ \A x \in Range(mm.extra_wants) : \A w \in Range(mm.wants) : x.uid # w.uid
        /\ Len(mm.extra_wants) <= ReachableRequirements
        /\ rounds < MaxRounds
        /\ (pc = "fulfil" => next \in 1..Len(search_.requests))
        /\ (AllWantedExist /\ AllSelectable) => pc # "failed"

\* the loop returned for wants [a@1] in a world with the cycle: b was
\* derived from a, and a was not derived again from b
C37_Witness ==
    /\ Cyclic(world)
    /\ pc = "ready"
    /\ Ready(last)
    /\ mm.wants = <<Wants("a", "1")>>
    /\ mm.extra_wants # <<>>
    /\ \A x \in Range(mm.extra_wants) : x = Wants("b", "1")
    /\ {"a", "b"} \subseteq DOMAIN last.manifests


(***************************************************************************)
(* C38: after download_file has returned Ok for a Library or Asset         *)
(* request, the file at the request's path has content whose digest is the *)
(* request's hash, whatever the file was before (missing, shorter or       *)
(* longer than the downloaded bytes), so that verifying the file again     *)
(* succeeds and it is not requested again.                                 *)
(***************************************************************************)
C38_FileIntact ==
    (fetch.op = "download_file" /\ fetch.err = "Ok") =>
        LET filename == Unwrap(get_path(fetch.request))
        IN  /\ IsSome(disk[filename])
            /\ Digest(Unwrap(get_hash_algo(fetch.request)), Unwrap(disk[filename]))
                  = get_hash(fetch.request)
            /\ verify_hash(disk, filename, fetch.request).err = "Ok"

\* the part that holds: the downloaded bytes have the request's hash, and
\* the file starts with them
C38_BodyIntact ==
    (fetch.op = "download_file" /\ fetch.err = "Ok" /\ IsSome(fetch.response)) =>
        LET filename == Unwrap(get_path(fetch.request))
            body == Unwrap(fetch.response).body
        IN  /\ Digest(Unwrap(get_hash_algo(fetch.request)), body)
                  = get_hash(fetch.request)
            /\ IsSome(disk[filename])
            /\ SubSeq(Unwrap(disk[filename]), 1, Len(body)) = body

\* download_file returned Ok and left the tail of an older, longer file
\* behind the downloaded bytes
C38_StaleTail ==
    /\ fetch.op = "download_file" /\ fetch.err = "Ok" /\ IsSome(fetch.response)
    /\ Unwrap(disk[Unwrap(get_path(fetch.request))]) = Genuine \o <<3>>


\* the libraries whose jar build_natives() opens for an instance made of the
\* manifests ms (Instance::new takes them from the SearchResult)
OpenedAtLaunch(ms) ==
    UNION {Range(get_natives([manifests |-> ms], order, HostOS)) : order \in Orders(ms)}

\* the planner verified the jar of library lib of the manifests ms
PlannerVerified(ms, lib) ==
    \E uid \in DOMAIN ms : \E i \in 1..Len(ms[uid].libraries) :
        /\ ms[uid].libraries[i] = lib
        /\ Cell(ms[uid].uid, ms[uid].version, "lib", i) \in verified

(***************************************************************************)
(* C39: when continue_search() reports the fixed point (an empty request   *)
(* list), every library whose jar build_natives() opens for the returned   *)
(* manifests (every library with natives[host.name] set) is one the        *)
(* planner treats as required for the host, and its classifier jar has     *)
(* been verified.                                                          *)
(***************************************************************************)
C39_NativesPlanned ==
    (last.op = "continue_search" /\ Ready(last)) =>
        \A lib \in OpenedAtLaunch(last.manifests) :
            /\ required_for(lib, HostOS)
            /\ PlannerVerified(last.manifests, lib)

\* the part that holds: every library the planner treats as required is
\* verified when the fixed point is reported
C39_RequiredVerified ==
    (last.op = "continue_search" /\ Ready(last)) =>
        \A lib \in OpenedAtLaunch(last.manifests) :
            required_for(lib, HostOS) => PlannerVerified(last.manifests, lib)

\* the fixed point was reported for a manifest with a native library that
\* the rules exclude on the host, and the jar is not there
C39_ExcludedNative ==
    /\ last.op = "continue_search" /\ Ready(last)
    /\ \E lib \in OpenedAtLaunch(last.manifests) :
          /\ ~required_for(lib, HostOS)
          /\ Display(path_at_for(lib, LibraryPath, HostOS)) \notin DOMAIN files


(***************************************************************************)
(* C40: the loop of run_search terminates: with every download succeeding  *)
(* (every wanted UID/version exists and has its artifacts for the host),   *)
(* no call fails, the loop stays below the cap of MaxRounds calls of       *)
(* continue_search() and always has a next step until continue_search()    *)
(* returns an empty request list, also when a resolved manifest carries an *)
(* asset_index.                                                            *)
(***************************************************************************)
C40_RunSearchTerminates ==
    (AllWantedExist /\ AllSelectable) =>
        /\ pc # "failed"
        /\ rounds < MaxRounds
        /\ (pc = "fulfil" => next \in 1..Len(search_.requests))

\* the same for the manifests that carry no asset_index
C40_WithoutAssetIndex ==
    (AllWantedExist /\ AllSelectable /\ world.art # "assets") =>
        /\ pc # "failed"
        /\ rounds < MaxRounds
        /\ (pc = "fulfil" => next \in 1..Len(search_.requests))

\* the loop has processed every request of a round and is where it was
\* before the round: the next continue_search() returns the same requests,
\* among them the AssetIndex request, and changes nothing
C40_Livelock ==
    /\ pc = "loop"
    /\ rounds > 1
    /\ AllWantedExist /\ AllSelectable
    /\ \E q \in Range(search_.requests) : q.kind = "AssetIndex"
    /\ LET r == continue_search(mm, verified, files)
       IN  /\ r.res = search_
           /\ r.mm = mm
           /\ r.verified = verified
    /\ \A q \in Range(search_.requests) : q.kind = "AssetIndex"

\* the loop of run_search returned for a manifest without asset_index
C40_Returned ==
    /\ pc = "ready"
    /\ Ready(last)
    /\ world.art = "natives"
    /\ verified # {}

=============================================================================
